---- MODULE Spec2Model ----
(***************************************************************************)
(* A model of the fiberize runtime: the System life cycle (run, shutdown,  *)
(* fiberFinished), the handler dispatch of a Context (bind, handleEvent,   *)
(* super) and the send / yield / suspend / enable handshake between        *)
(* senders, fibers, fiberized threads and schedulers.                      *)
(*                                                                         *)
(* Three specifications share the module:                                  *)
(*   SpecSys       System::run, System::shutdown, System::fiberFinished    *)
(*   SpecDispatch  Context::bind, Context::handleEvent, Context::super     *)
(*   Spec          Context::yield, Context::process, the send path and     *)
(*                 the schedulers                                          *)
(***************************************************************************)
EXTENDS Integers, Sequences, FiniteSets, TLC

(***************************************************************************)
(* Bounds of the model.                                                    *)
(***************************************************************************)
\* Number of System::run calls made over one System lifetime.
MaxRuns == 3
\* Number of executors of the System (std::thread::hardware_concurrency()).
NumExecutors == 2
\* Width, in bits, at which the model keeps the wrap-around of the unsigned
\* running counter (std::atomic<uint64_t> in the program).
CounterBits == 3
\* Number of worker threads, each with its FiberScheduler and ready queue.
NumWorkers == 2
\* Number of sending threads.
NumSenders == 2
\* Number of events each sender sends.
MaxSends == 2
\* Number of lines the ping-pong program prints before the model stops it.
MaxLines == 6
\* Number of events sent to the fiber that nests awaits, and the depth to
\* which it nests them.
MaxAwaitEvents == 3
MaxDepth == 4
MaxHandlerSends == 1
\* Number of handlers bound for the event path over the life of a Context.
MaxHandlers == 3
\* Number of super() calls one execution of a handler makes at most.
MaxSuperCalls == 2
\* Number of events handed to handleEvent.
MaxEvents == 3

VARIABLES
    \* ---- System (SpecSys) ----
    shuttingDown,   \* System::shuttingDown
    running,        \* System::running, an unsigned counter
    fiberState,     \* fiber id -> "none" | "queued" | "executing" | "finishing" | "done"
    execQueue,      \* executor -> sequence of fiber ids handed to it by run
    execCurrent,    \* executor -> fiber id it executes, or 0
    execObserved,   \* executor -> value fetch_sub returned to its fiberFinished call
    callerPc,       \* caller thread -> position inside run / shutdown / await
    callerAfter,    \* caller thread -> the call in progress began after shutdown() returned
    lastRef,        \* caller thread -> what its last run call returned
    created,        \* number of fiber objects / control blocks / stacks / mailboxes created
    mainMailbox,    \* number of allFibersFinished events in the main block's mailbox
    emitted,        \* number of allFibersFinished events emitted so far
    awaitBound,     \* the main context has a live await handler bound
    awaitReturned,  \* number of times the await on the main context returned
    \* ---- Context dispatch (SpecDispatch) ----
    hBlock,         \* handlerBlocks holds a HandlerBlock for the event path
    hStack,         \* HandlerBlock::stackedHandlers: handler ids, oldest binding first
    hDestroyed,     \* the handlers whose destroyed flag is set
    hBound,         \* number of handlers bound so far (ids are 1..hBound, in binding order)
    hCtxLive,       \* Context::handlerContext is not null
    hCursor,        \* HandlerContext::handler: a handler id (its list node), End or Dangling
    hFrames,        \* the handlers executing, outermost first: [id, supers]
    hLog,           \* the handlers executed by the current / last dispatch: [id, by, dead]
    hTop,           \* the newest live handler when the current / last dispatch began, or 0
    hPc,            \* "idle" | "dispatch" | "crashed"
    hEvents,        \* number of events handed to handleEvent so far
    hRanFor,        \* the events (by number) for which a handler was executed
    hAbsentFor,     \* the events (by number) whose path had no handler block
    hAwaited,       \* the handlers bound by an Event::await that has returned
    \* ---- send path, yield, schedulers (Spec) ----
    status,         \* control block -> ControlBlock::status
    mutex,          \* control block -> holder of ControlBlock::mutex
    mailbox,        \* control block -> the events in its mailbox, oldest first
    pc,             \* control block -> position of its fiber / thread
    inHand,         \* control block -> the event dequeued and being handled
    awaiting,       \* control block -> an await handler for path P is bound
    readyQ,         \* worker -> ready queue of its FiberScheduler
    current,        \* worker -> the block it executes, or "none"
    enabledMutex,   \* holder of ThreadControlBlock::enabledMutex
    notified,       \* the waiting thread has been signalled on ThreadControlBlock::enabled
    spc,            \* sender -> position inside send, "noref" before it has a FiberRef
    starget,        \* sender -> the block its FiberRef addresses
    spath,          \* sender -> the path of the Event it sends
    sent,           \* sender -> number of events sent
    handledLog,     \* control block -> the events passed to handleEvent: [ev, how]
    freedLog,       \* control block -> the events given to freeData
    awaitRet,       \* control block -> the event whose value its last await returned
    firstAfter,     \* control block -> the first P event enqueued since the binding
    pendingAtBind,  \* control block -> a P event was in the mailbox at the binding
    enablesSince,   \* control block -> enables since it last became Suspended
    aborted,        \* a failed assertion has ended the process
    bound,          \* control block -> ControlBlock::bound: a worker, or 0 for nullptr
    \* ---- Fiber::_execute (SpecFiber) ----
    runPc,          \* fiber -> position inside _execute
    runOutcome,     \* fiber -> how its run() ended: "none" | "returned" | "raised"
    parentEvents,   \* fiber -> the terminal events it has emitted to its parent
    \* ---- the ping-pong program (SpecPingPong) ----
    ppProgram,      \* which main: "emit-both" (examples/pingpong) or "ready" (handshake)
    ppMain,         \* position of main
    ppPc,           \* fiber (and main) -> position inside run()
    ppBox,          \* fiber (and main) -> the events in its mailbox, oldest first
    ppOut,          \* the lines printed
    ppDropped,      \* the events handleEvent found no handler block for: [to, ev]
    \* ---- one fiber that nests awaits (SpecAwait) ----
    aType,          \* path -> the payload type A of its Event<A>
    aFrames,        \* the calls in progress, outermost first: awaits and handlers
    aBox,           \* the mailbox: paths of the events, oldest first
    aSent,          \* number of events sent so far
    aReturns,       \* the awaits that returned: [await, event], paths
    \* ---- the ThreadScheduler of the fiberized thread (SpecThread) ----
    schRef,         \* ThreadScheduler::controlBlock_ is not null
    schDrops,       \* number of controlBlock_->drop() calls the scheduler made
    schLive,        \* the ThreadScheduler has not been destroyed
    \* ---- sends issued by handlers (SpecHandlerSend) ----
    hsSent          \* block -> number of events its handlers have sent

sysVars == <<shuttingDown, running, fiberState, execQueue, execCurrent, execObserved,
             callerPc, callerAfter, lastRef, created, mainMailbox, emitted,
             awaitBound, awaitReturned>>

dspVars == <<hBlock, hStack, hDestroyed, hBound, hCtxLive, hCursor, hFrames, hLog, hTop,
             hPc,
            hEvents, hRanFor, hAbsentFor, hAwaited>>

conVars == <<status, mutex, mailbox, pc, inHand, awaiting, readyQ, current,
             enabledMutex, notified, spc, starget, spath, sent, handledLog,
             freedLog, awaitRet, firstAfter, pendingAtBind, enablesSince, aborted,
             bound>>

fibVars == <<runPc, runOutcome, parentEvents>>

ppVars == <<ppProgram, ppMain, ppPc, ppBox, ppOut, ppDropped>>

awVars == <<aType, aFrames, aBox, aSent, aReturns>>
schVars == <<schRef, schDrops, schLive>>
hsVars == <<hsSent>>

vars == <<sysVars, dspVars, conVars, fibVars, ppVars, awVars, schVars, hsVars>>

\* What a step of one part of the model leaves alone.
OutsideSys == UNCHANGED <<dspVars, conVars, fibVars, ppVars, awVars, schVars, hsVars>>
OutsideDispatch == UNCHANGED <<sysVars, conVars, fibVars, ppVars, awVars, schVars, hsVars>>
OutsideThread == UNCHANGED <<sysVars, dspVars, fibVars, ppVars, awVars, hsVars>>
OutsideHandlerSend == UNCHANGED <<sysVars, dspVars, fibVars, ppVars, awVars, schVars>>
OutsideCon == UNCHANGED <<sysVars, dspVars, fibVars, ppVars, awVars, schVars, hsVars>>
OutsideFiber == UNCHANGED <<sysVars, dspVars, conVars, ppVars, awVars, schVars, hsVars>>
OutsidePingPong == UNCHANGED <<sysVars, dspVars, conVars, fibVars, awVars, schVars, hsVars>>
OutsideAwait == UNCHANGED <<sysVars, dspVars, conVars, fibVars, ppVars, schVars, hsVars>>

(***************************************************************************)
(* System                                                                  *)
(***************************************************************************)
Fibers == 1..MaxRuns
Executors == 1..NumExecutors
\* Caller 1 is the main thread (it owns the main context); caller 2 is any
\* other thread or fiber that holds the System.
Callers == {1, 2}
MainCaller == 1

CounterModulus == 2 ^ CounterBits

\* Unsigned arithmetic of the running counter.
Wrap(x) == x % CounterModulus

SysInit ==
    /\ shuttingDown = FALSE
    /\ running = 0
    /\ fiberState = [f \in Fibers |-> "none"]
    /\ execQueue = [e \in Executors |-> <<>>]
    /\ execCurrent = [e \in Executors |-> 0]
    /\ execObserved = [e \in Executors |-> 0]
    /\ callerPc = [c \in Callers |-> "idle"]
    /\ callerAfter = [c \in Callers |-> FALSE]
    /\ lastRef = [c \in Callers |-> "none"]
    /\ created = 0
    /\ mainMailbox = 0
    /\ emitted = 0
    /\ awaitBound = FALSE
    /\ awaitReturned = 0

\* System::shutdown
Shutdown(c) ==
    /\ callerPc[c] = "idle"
    /\ shuttingDown' = TRUE
    /\ UNCHANGED <<running, fiberState, execQueue, execCurrent, execObserved, callerPc,
                   callerAfter, lastRef, created, mainMailbox, emitted, awaitBound,
                   awaitReturned>>
    /\ OutsideSys

\* The callers that are inside a run call.
InRun == {c \in Callers : callerPc[c] \in {"run_check", "run_create", "run_bump", "run_dead"}}

\* System::run, entry: the call begins.
RunBegin(c) ==
    /\ callerPc[c] = "idle"
    /\ created + Cardinality(InRun) < MaxRuns
    /\ callerPc' = [callerPc EXCEPT ![c] = "run_check"]
    /\ callerAfter' = [callerAfter EXCEPT ![c] = shuttingDown]
    /\ UNCHANGED <<shuttingDown, running, fiberState, execQueue, execCurrent,
                   execObserved, lastRef, created, mainMailbox, emitted, awaitBound,
                   awaitReturned>>
    /\ OutsideSys

\* A run that does not look at the shuttingDown flag.
RunIgnoresShutdown(flag) == TRUE

\* System::run, the test of the shuttingDown flag.
RunMayCreate(flag) == ~flag

RunCheck(c) ==
    /\ callerPc[c] = "run_check"
    /\ callerPc' = [callerPc EXCEPT ![c] =
                       IF RunMayCreate(shuttingDown) THEN "run_create" ELSE "run_dead"]
    /\ UNCHANGED <<shuttingDown, running, fiberState, execQueue, execCurrent,
                   execObserved, callerAfter, lastRef, created, mainMailbox, emitted,
                   awaitBound, awaitReturned>>
    /\ OutsideSys

\* System::run, the branch that creates the fiber, its control block, stack and
\* mailbox, and hands the block to a randomly chosen executor.
RunCreate(c) ==
    /\ callerPc[c] = "run_create"
    /\ \E e \in Executors :
        /\ execQueue' = [execQueue EXCEPT ![e] = Append(@, created + 1)]
    /\ fiberState' = [fiberState EXCEPT ![created + 1] = "queued"]
    /\ created' = created + 1
    /\ lastRef' = [lastRef EXCEPT ![c] = "local"]
    /\ callerPc' = [callerPc EXCEPT ![c] = "run_bump"]
    /\ UNCHANGED <<shuttingDown, running, execCurrent, execObserved, callerAfter,
                   mainMailbox, emitted, awaitBound, awaitReturned>>
    /\ OutsideSys

\* System::run, the bump of the running-fiber counter that follows the enable.
RunBump(c) ==
    /\ callerPc[c] = "run_bump"
    /\ running' = Wrap(running + 1)
    /\ callerPc' = [callerPc EXCEPT ![c] = "idle"]
    /\ UNCHANGED <<shuttingDown, fiberState, execQueue, execCurrent, execObserved,
                   callerAfter, lastRef, created, mainMailbox, emitted, awaitBound,
                   awaitReturned>>
    /\ OutsideSys

\* System::run, the branch taken when the system is shutting down.
RunDeadLetter(c) ==
    /\ callerPc[c] = "run_dead"
    /\ lastRef' = [lastRef EXCEPT ![c] = "deadletter"]
    /\ callerPc' = [callerPc EXCEPT ![c] = "idle"]
    /\ UNCHANGED <<shuttingDown, running, fiberState, execQueue, execCurrent,
                   execObserved, callerAfter, created, mainMailbox, emitted, awaitBound,
                   awaitReturned>>
    /\ OutsideSys

\* An executor takes the next block handed to it and runs the fiber.
ExecStart(e) ==
    /\ execCurrent[e] = 0
    /\ execQueue[e] # <<>>
    /\ execCurrent' = [execCurrent EXCEPT ![e] = Head(execQueue[e])]
    /\ execQueue' = [execQueue EXCEPT ![e] = Tail(@)]
    /\ fiberState' = [fiberState EXCEPT ![Head(execQueue[e])] = "executing"]
    /\ UNCHANGED <<shuttingDown, running, execObserved, callerPc, callerAfter, lastRef,
                   created, mainMailbox, emitted, awaitBound, awaitReturned>>
    /\ OutsideSys

\* System::fiberFinished, the atomic fetch_sub on the running counter.
FiberFinishedSub(e) ==
    /\ execCurrent[e] # 0
    /\ fiberState[execCurrent[e]] = "executing"
    /\ execObserved' = [execObserved EXCEPT ![e] = running]
    /\ running' = Wrap(running - 1)
    /\ fiberState' = [fiberState EXCEPT ![execCurrent[e]] = "finishing"]
    /\ UNCHANGED <<shuttingDown, execQueue, execCurrent, callerPc, callerAfter, lastRef,
                   created, mainMailbox, emitted, awaitBound, awaitReturned>>
    /\ OutsideSys

\* A fiberFinished that emits when it observed the counter already at zero.
EmitsOnZero(observed) == observed = 0

\* System::fiberFinished, the test of the value observed and the emit.
EmitsOn(observed) == observed = 1

FiberFinishedEmit(e) ==
    /\ execCurrent[e] # 0
    /\ fiberState[execCurrent[e]] = "finishing"
    /\ IF EmitsOn(execObserved[e])
       THEN /\ mainMailbox' = mainMailbox + 1
            /\ emitted' = emitted + 1
       ELSE UNCHANGED <<mainMailbox, emitted>>
    /\ fiberState' = [fiberState EXCEPT ![execCurrent[e]] = "done"]
    /\ execCurrent' = [execCurrent EXCEPT ![e] = 0]
    /\ UNCHANGED <<shuttingDown, running, execQueue, execObserved, callerPc, callerAfter,
                   lastRef, created, awaitBound, awaitReturned>>
    /\ OutsideSys

\* Event::await on the main context: bind the one-shot handler, then yield.
AwaitBind ==
    /\ callerPc[MainCaller] = "idle"
    /\ awaitReturned = 0
    /\ awaitBound' = TRUE
    /\ callerPc' = [callerPc EXCEPT ![MainCaller] = "await_process"]
    /\ UNCHANGED <<shuttingDown, running, fiberState, execQueue, execCurrent,
                   execObserved, callerAfter, lastRef, created, mainMailbox, emitted,
                   awaitReturned>>
    /\ OutsideSys

\* Context::yield on the main context: process() dequeues an event, the await
\* handler raises EventFired, and await returns.
AwaitProcess ==
    /\ callerPc[MainCaller] = "await_process"
    /\ IF mainMailbox > 0
       THEN /\ mainMailbox' = mainMailbox - 1
            /\ awaitBound' = FALSE
            /\ awaitReturned' = awaitReturned + 1
            /\ callerPc' = [callerPc EXCEPT ![MainCaller] = "idle"]
       ELSE /\ callerPc' = [callerPc EXCEPT ![MainCaller] = "await_sleep"]
            /\ UNCHANGED <<mainMailbox, awaitBound, awaitReturned>>
    /\ UNCHANGED <<shuttingDown, running, fiberState, execQueue, execCurrent,
                   execObserved, callerAfter, lastRef, created, emitted>>
    /\ OutsideSys

\* Context::yield on the main context: the block has no executor, the thread
\* sleeps 1 ms and the loop starts again.
AwaitSleep ==
    /\ callerPc[MainCaller] = "await_sleep"
    /\ callerPc' = [callerPc EXCEPT ![MainCaller] = "await_process"]
    /\ UNCHANGED <<shuttingDown, running, fiberState, execQueue, execCurrent,
                   execObserved, callerAfter, lastRef, created, mainMailbox, emitted,
                   awaitBound, awaitReturned>>
    /\ OutsideSys

SysNext ==
    \/ \E c \in Callers : Shutdown(c)
    \/ \E c \in Callers : RunBegin(c)
    \/ \E c \in Callers : RunCheck(c)
    \/ \E c \in Callers : RunCreate(c)
    \/ \E c \in Callers : RunBump(c)
    \/ \E c \in Callers : RunDeadLetter(c)
    \/ \E e \in Executors : ExecStart(e)
    \/ \E e \in Executors : FiberFinishedSub(e)
    \/ \E e \in Executors : FiberFinishedEmit(e)
    \/ AwaitBind
    \/ AwaitProcess
    \/ AwaitSleep

(***************************************************************************)
(* Context: bind, handleEvent, super                                       *)
(***************************************************************************)
\* Values of the cursor that are not list nodes: stackedHandlers.end(), and an
\* iterator to a node that has been erased from the list.
End == 0
Dangling == 0 - 1

DspInit ==
    /\ hBlock = FALSE
    /\ hStack = <<>>
    /\ hDestroyed = {}
    /\ hBound = 0
    /\ hCtxLive = FALSE
    /\ hCursor = End
    /\ hFrames = <<>>
    /\ hLog = <<>>
    /\ hTop = 0
    /\ hPc = "idle"
    /\ hEvents = 0
    /\ hRanFor = {}
    /\ hAbsentFor = {}
    /\ hAwaited = {}

\* Position of handler id in the list s (0 when absent).
IndexOf(s, id) ==
    IF \E i \in 1..Len(s) : s[i] = id
    THEN CHOOSE i \in 1..Len(s) : s[i] = id
    ELSE 0

RemoveAt(s, i) == SubSeq(s, 1, i - 1) \o SubSeq(s, i + 1, Len(s))

\* The most recently bound handler of s whose destroyed flag is not set, or 0.
NewestLive(s, destroyed) ==
    LET live == {i \in 1..Len(s) : s[i] \notin destroyed}
    IN  IF live = {} THEN 0 ELSE s[CHOOSE i \in live : \A j \in live : j <= i]

\* A handleEvent that leaves the destroyed handlers in the list.
PruneNothing(s, destroyed) == s

\* Context::handleEvent, "get rid of dead handlers at the back".
RECURSIVE PruneBack(_, _)
PruneBack(s, destroyed) ==
    IF s # <<>> /\ s[Len(s)] \in destroyed
    THEN PruneBack(SubSeq(s, 1, Len(s) - 1), destroyed)
    ELSE s

\* Context::super, the loop "find an alive handler" started at position i of s.
\* The result is the list, the cursor and the handler to execute (0: none).
\* The cursor was moved to the first node inspected before the loop; when the
\* loop ends in pop_front that node has been removed (by erase or by the
\* pop_front itself), so the cursor is left dangling.
\* A loop that walks the list from its front: it executes the oldest live handler.
FindAliveFromFront(s, destroyed, i) ==
    LET live == {k \in 1..Len(s) : s[k] \notin destroyed}
        k == CHOOSE k \in live : \A j \in live : k <= j
    IN  IF live = {}
        THEN [stack |-> s, cursor |-> End, exec |-> 0]
        ELSE [stack |-> s, cursor |-> s[k], exec |-> s[k]]

RECURSIVE FindAlive(_, _, _)
FindAlive(s, destroyed, i) ==
    IF s[i] \notin destroyed
    THEN [stack |-> s, cursor |-> s[i], exec |-> s[i]]
    ELSE IF i = 1
         THEN [stack |-> Tail(s), cursor |-> Dangling, exec |-> 0]
         ELSE FindAlive(RemoveAt(s, i), destroyed, i - 1)

\* Context::super with a cursor that designates a node of s or its end.
SuperResult(s, destroyed, cursor) ==
    LET pos == IF cursor = End THEN Len(s) + 1 ELSE IndexOf(s, cursor)
    IN  IF pos = 1
        THEN [stack |-> s, cursor |-> cursor, exec |-> 0]
        ELSE FindAlive(s, destroyed, pos - 1)

\* Context::bind. The list node of the new handler is allocated; when the
\* cursor dangles, the allocator may hand out the node the cursor still points
\* to, and the cursor then designates the new handler.
Bind ==
    /\ hPc \in {"idle", "dispatch"}
    /\ hBound < MaxHandlers
    /\ hBound' = hBound + 1
    /\ hBlock' = TRUE
    /\ hStack' = Append(hStack, hBound + 1)
    /\ \/ hCursor' = hCursor
       \/ hCtxLive /\ hCursor = Dangling /\ hCursor' = hBound + 1
    /\ UNCHANGED <<hDestroyed, hCtxLive, hFrames, hLog, hTop, hPc>>
    /\ UNCHANGED <<hEvents, hRanFor, hAbsentFor, hAwaited>>
    /\ OutsideDispatch

\* HandlerRef: the owner of a binding destroys it (sets the destroyed flag).
Destroy(h) ==
    /\ hPc \in {"idle", "dispatch"}
    /\ IndexOf(hStack, h) # 0
    /\ h \notin hDestroyed
    /\ hDestroyed' = hDestroyed \cup {h}
    /\ UNCHANGED <<hBlock, hStack, hBound, hCtxLive, hCursor, hFrames, hLog, hTop, hPc>>
    /\ UNCHANGED <<hEvents, hRanFor, hAbsentFor, hAwaited>>
    /\ OutsideDispatch

\* A handleEvent that creates the handler context before it looks for the
\* handler block.
ContextCreatedFirst(live) == TRUE

\* Context::handleEvent, no handler block for the path: return, before any
\* handler context is created.
ContextWhenNoBlock(live) == live

\* Context::handleEvent up to and including its call of super().
HandleEvent ==
    /\ hPc = "idle"
    /\ hEvents < MaxEvents
    /\ hEvents' = hEvents + 1
    /\ hAbsentFor' = IF hBlock THEN hAbsentFor ELSE hAbsentFor \cup {hEvents + 1}
    /\ hRanFor' = IF hBlock /\ PruneBack(hStack, hDestroyed) # <<>>
                  THEN hRanFor \cup {hEvents + 1} ELSE hRanFor
    /\ hLog' = IF hBlock /\ PruneBack(hStack, hDestroyed) # <<>>
               THEN <<[id |-> SuperResult(PruneBack(hStack, hDestroyed), hDestroyed, End).exec,
                       by |-> 0,
                       dead |-> SuperResult(PruneBack(hStack, hDestroyed), hDestroyed,
                                            End).exec \in hDestroyed]>>
               ELSE <<>>
    /\ hTop' = IF hBlock THEN NewestLive(hStack, hDestroyed) ELSE 0
    /\ IF ~hBlock
       THEN /\ hCtxLive' = ContextWhenNoBlock(hCtxLive)
            /\ UNCHANGED <<hBlock, hStack, hCursor, hFrames, hPc>>
       ELSE IF PruneBack(hStack, hDestroyed) = <<>>
            THEN /\ hBlock' = FALSE
                 /\ hStack' = <<>>
                 /\ UNCHANGED <<hCtxLive, hCursor, hFrames, hPc>>
            ELSE LET r == SuperResult(PruneBack(hStack, hDestroyed), hDestroyed, End)
                 IN  /\ hBlock' = TRUE
                     /\ hStack' = r.stack
                     /\ hCtxLive' = TRUE
                     /\ hCursor' = r.cursor
                     /\ hFrames' = <<[id |-> r.exec, supers |-> 0]>>
                     /\ hPc' = "dispatch"
    /\ UNCHANGED <<hDestroyed, hBound, hAwaited>>
    /\ OutsideDispatch

\* The executing handler calls Context::super.
SuperCall ==
    /\ hPc = "dispatch"
    /\ hFrames # <<>>
    /\ hFrames[Len(hFrames)].supers < MaxSuperCalls
    /\ LET n == Len(hFrames)
           counted == [hFrames EXCEPT ![n].supers = @ + 1]
       IN  IF hCursor = Dangling
           THEN \* the cursor is read after its node was freed
                /\ hPc' = "crashed"
                /\ hFrames' = counted
                /\ UNCHANGED <<hStack, hCursor, hLog, hRanFor>>
           ELSE LET r == SuperResult(hStack, hDestroyed, hCursor)
                IN  /\ hStack' = r.stack
                    /\ hCursor' = r.cursor
                    /\ hPc' = "dispatch"
                    /\ hRanFor' = IF r.exec = 0 THEN hRanFor ELSE hRanFor \cup {hEvents}
                    /\ IF r.exec = 0
                       THEN /\ hFrames' = counted
                            /\ hLog' = hLog
                       ELSE /\ hFrames' = Append(counted, [id |-> r.exec, supers |-> 0])
                            /\ hLog' = Append(hLog, [id |-> r.exec,
                                                     by |-> hFrames[n].id,
                                                     dead |-> r.exec \in hDestroyed])
    /\ UNCHANGED <<hBlock, hDestroyed, hBound, hCtxLive, hTop, hEvents, hAbsentFor,
                   hAwaited>>
    /\ OutsideDispatch

\* The executing handler returns; when it was executed by handleEvent itself,
\* handleEvent resets the handler context and returns.
HandlerReturn ==
    /\ hPc = "dispatch"
    /\ hFrames # <<>>
    /\ hFrames' = SubSeq(hFrames, 1, Len(hFrames) - 1)
    /\ IF Len(hFrames) = 1
       THEN /\ hCtxLive' = FALSE
            /\ hCursor' = End
            /\ hPc' = "idle"
       ELSE UNCHANGED <<hCtxLive, hCursor, hPc>>
    /\ UNCHANGED <<hBlock, hStack, hDestroyed, hBound, hLog, hTop>>
    /\ UNCHANGED <<hEvents, hRanFor, hAbsentFor, hAwaited>>
    /\ OutsideDispatch

\* The executing handler raises (as the handler of Event::await does after its
\* super() call): the exception leaves every executing handler and
\* handleEvent, which does not reach its handlerContext.reset().
HandlerThrow ==
    /\ hPc = "dispatch"
    /\ hFrames # <<>>
    /\ hFrames' = <<>>
    /\ hPc' = "idle"
    /\ UNCHANGED <<hBlock, hStack, hDestroyed, hBound, hCtxLive, hCursor, hLog, hTop>>
    /\ UNCHANGED <<hEvents, hRanFor, hAbsentFor, hAwaited>>
    /\ OutsideDispatch

\* An await whose handler stays bound after the await has returned.
AwaitKeepsHandler(destroyed, h) == destroyed

\* Event::await returns: the HandlerRef it holds goes out of scope and the
\* handler is marked destroyed.
AwaitReleases(destroyed, h) == destroyed \cup {h}

\* The executing handler is the one an Event::await has bound: it has called
\* super() and now raises EventFired, which leaves every executing handler,
\* handleEvent and yield, and is caught in the await; the await returns.
AwaitFires ==
    /\ hPc = "dispatch"
    /\ hFrames # <<>>
    /\ hFrames[Len(hFrames)].supers = 1
    /\ hFrames' = <<>>
    /\ hPc' = "idle"
    /\ hDestroyed' = AwaitReleases(hDestroyed, hFrames[Len(hFrames)].id)
    /\ hAwaited' = hAwaited \cup {hFrames[Len(hFrames)].id}
    /\ UNCHANGED <<hBlock, hStack, hBound, hCtxLive, hCursor, hLog, hTop, hEvents,
                   hRanFor, hAbsentFor>>
    /\ OutsideDispatch

DspNext ==
    \/ Bind
    \/ \E h \in 1..MaxHandlers : Destroy(h)
    \/ HandleEvent
    \/ SuperCall
    \/ HandlerReturn
    \/ HandlerThrow
    \/ AwaitFires

(***************************************************************************)
(* Send path, Context::yield / process, schedulers                         *)
(***************************************************************************)
\* The control blocks: one fiber (FiberControlBlock, run by the workers) and
\* one fiberized thread (its block is driven by a ThreadScheduler).
FiberBlock == "F"
ThreadBlock == "T"
Blocks == {FiberBlock, ThreadBlock}
Workers == 1..NumWorkers
\* The senders are threads other than the two receivers; each is fiberized,
\* so its enable of a fiber goes through ThreadScheduler::enableFiber.
Senders == 1..NumSenders
Paths == {"P", "Q"}

NoEvent == [from |-> 0, seq |-> 0, path |-> "-"]

\* LifeStatus
Suspended == "Suspended"
Scheduled == "Scheduled"
Running == "Running"
Dead == "Dead"

\* Values of a mutex: free, held by the block's own fiber / thread, or held by
\* a sender (its number).
Free == 0
Self == 0 - 1

ConInitWith(pin) ==
    /\ bound = [b \in Blocks |-> IF b = FiberBlock THEN pin ELSE 0]
    /\ status = [b \in Blocks |-> IF b = FiberBlock THEN Scheduled ELSE Running]
    /\ mutex = [b \in Blocks |-> Free]
    /\ mailbox = [b \in Blocks |-> <<>>]
    /\ pc = [b \in Blocks |-> IF b = FiberBlock THEN "created" ELSE "user"]
    /\ inHand = [b \in Blocks |-> NoEvent]
    /\ awaiting = [b \in Blocks |-> FALSE]
    /\ readyQ = [w \in Workers |->
                    IF w = (IF pin = 0 THEN 1 ELSE pin) THEN <<FiberBlock>> ELSE <<>>]
    /\ current = [w \in Workers |-> "none"]
    /\ enabledMutex = Free
    /\ notified = FALSE
    /\ spc = [s \in Senders |-> "noref"]
    /\ starget = [s \in Senders |-> FiberBlock]
    /\ spath = [s \in Senders |-> IF s = 1 THEN "P" ELSE "Q"]
    /\ sent = [s \in Senders |-> 0]
    /\ handledLog = [b \in Blocks |-> <<>>]
    /\ freedLog = [b \in Blocks |-> <<>>]
    /\ awaitRet = [b \in Blocks |-> NoEvent]
    /\ firstAfter = [b \in Blocks |-> NoEvent]
    /\ pendingAtBind = [b \in Blocks |-> FALSE]
    /\ enablesSince = [b \in Blocks |-> 0]
    /\ aborted = FALSE

\* The fiber was started unpinned: the round-robin counter gives it to the
\* first worker.
ConInit == ConInitWith(0)

\* The fiber was started pinned to a worker.
ConInitPinned == \E w \in Workers : ConInitWith(w)

\* Number of times block b occurs in the ready queues of the workers.
RECURSIVE CountIn(_, _)
CountIn(q, b) ==
    IF q = <<>> THEN 0 ELSE (IF Head(q) = b THEN 1 ELSE 0) + CountIn(Tail(q), b)

RECURSIVE QueuedCountUpTo(_, _)
QueuedCountUpTo(b, w) ==
    IF w = 0 THEN 0 ELSE CountIn(readyQ[w], b) + QueuedCountUpTo(b, w - 1)

QueuedCount(b) == QueuedCountUpTo(b, NumWorkers)

HasPathP(q) == \E i \in 1..Len(q) : q[i].path = "P"

\* ---------------------------------------------------------------- mailbox
\* Mailbox::enqueue and Mailbox::dequeue: a FIFO.
Enqueue(q, e) == Append(q, e)
DequeueHead(q) == Head(q)
DequeueRest(q) == Tail(q)

\* ---------------------------------------------------------------- receiver
\* The blocks some sender holds a reference to; the user code of the others
\* awaits nothing.
Addressed == {starget[s] : s \in {t \in Senders : spc[t] # "noref"}}

\* Event::await: bind the one-shot handler for path P, then call yield.
AwaitBegin(b) ==
    /\ ~aborted
    /\ pc[b] = "user"
    /\ b \in Addressed
    /\ awaiting' = [awaiting EXCEPT ![b] = TRUE]
    /\ pc' = [pc EXCEPT ![b] = "process"]
    /\ awaitRet' = [awaitRet EXCEPT ![b] = NoEvent]
    /\ firstAfter' = [firstAfter EXCEPT ![b] = NoEvent]
    /\ pendingAtBind' = [pendingAtBind EXCEPT ![b] = HasPathP(mailbox[b])]
    /\ UNCHANGED <<status, mutex, mailbox, inHand, readyQ, current, enabledMutex,
                   notified, spc, starget, spath, sent, handledLog, freedLog, enablesSince,
                   aborted, bound>>
    /\ OutsideCon

\* Context::process: dequeue an event and call handleEvent on it.
ProcessDequeue(b) ==
    /\ ~aborted
    /\ pc[b] = "process"
    /\ mailbox[b] # <<>>
    /\ inHand' = [inHand EXCEPT ![b] = DequeueHead(mailbox[b])]
    /\ mailbox' = [mailbox EXCEPT ![b] = DequeueRest(@)]
    /\ handledLog' = [handledLog EXCEPT ![b] =
                         Append(@, [ev |-> DequeueHead(mailbox[b]), how |-> "process"])]
    /\ pc' = [pc EXCEPT ![b] = "handle"]
    /\ UNCHANGED <<status, mutex, awaiting, readyQ, current, enabledMutex, notified,
                   spc, starget, spath, sent, freedLog, awaitRet, firstAfter, pendingAtBind,
                   enablesSince, aborted, bound>>
    /\ OutsideCon

\* Context::process returns on an empty mailbox; Context::yield goes on to the
\* test of the executor.
ProcessEmpty(b) ==
    /\ ~aborted
    /\ pc[b] = "process"
    /\ mailbox[b] = <<>>
    /\ pc' = [pc EXCEPT ![b] = "lock"]
    /\ UNCHANGED <<status, mutex, mailbox, inHand, awaiting, readyQ, current,
                   enabledMutex, notified, spc, starget, spath, sent, handledLog, freedLog,
                   awaitRet, firstAfter, pendingAtBind, enablesSince, aborted, bound>>
    /\ OutsideCon

\* What happens to the payload when handleEvent exits by an exception (the
\* catch block of process and of yield), as the number of freeData calls.
FreesOnThrowNever(e) == 0

FreesOnThrow(e) == 1

\* An await whose handler is run for an event of any path.
AwaitCatchesAnyPath(e, isBound) == isBound

\* Context::handleEvent finds the handlers by the path of the event, and the
\* handler Event::await has bound for path P raises EventFired.
AwaitCatches(e, isBound) == isBound /\ e.path = "P"

\* handleEvent returns or raises, and the payload is freed. The handler of
\* Event::await raises EventFired, which leaves process and yield and is
\* caught in await; await returns the value and its binding is released.
\* An unwinding that takes the pending events with it.
RaiseDropsPending(q) == <<>>
\* The mailbox after the catch of process or yield has freed the event in hand
\* and rethrown: the catch does not touch the mailbox.
MailboxAfterRaise(q) == q

HandleFinish(b) ==
    /\ ~aborted
    /\ pc[b] = "handle"
    /\ IF AwaitCatches(inHand[b], awaiting[b])
       THEN /\ freedLog' = [freedLog EXCEPT ![b] =
                               IF FreesOnThrow(inHand[b]) = 1
                               THEN Append(@, inHand[b]) ELSE @]
            /\ awaiting' = [awaiting EXCEPT ![b] = FALSE]
            /\ awaitRet' = [awaitRet EXCEPT ![b] = inHand[b]]
            /\ pc' = [pc EXCEPT ![b] = "user"]
            /\ mailbox' = [mailbox EXCEPT ![b] = MailboxAfterRaise(@)]
       ELSE /\ freedLog' = [freedLog EXCEPT ![b] = Append(@, inHand[b])]
            /\ pc' = [pc EXCEPT ![b] = "process"]
            /\ UNCHANGED <<awaiting, awaitRet, mailbox>>
    /\ inHand' = [inHand EXCEPT ![b] = NoEvent]
    /\ UNCHANGED <<status, mutex, readyQ, current, enabledMutex, notified,
                   spc, starget, spath, sent, handledLog, firstAfter, pendingAtBind,
                   enablesSince, aborted, bound>>
    /\ OutsideCon

\* Context::yield: controlBlock->mutex.lock()
YieldLock(b) ==
    /\ ~aborted
    /\ pc[b] = "lock"
    /\ mutex[b] = Free
    /\ mutex' = [mutex EXCEPT ![b] = Self]
    /\ pc' = [pc EXCEPT ![b] = "recheck"]
    /\ UNCHANGED <<status, mailbox, inHand, awaiting, readyQ, current, enabledMutex,
                   notified, spc, starget, spath, sent, handledLog, freedLog, awaitRet,
                   firstAfter, pendingAtBind, enablesSince, aborted, bound>>
    /\ OutsideCon

\* A yield that suspends without looking at the mailbox again.
RecheckFindsNothing(q) == FALSE

\* Context::yield: the second look at the mailbox, made with the mutex held.
RecheckFinds(q) == q # <<>>

\* A yield that puts the event found by the second look back at the end of the
\* mailbox instead of handling it.
RecheckPutsBack(q) == [rest |-> Append(Tail(q), Head(q)), handle |-> <<>>]

\* Context::yield: the event found by the second look is taken out of the
\* mailbox and handled.
RecheckTake(q) == [rest |-> DequeueRest(q), handle |-> <<DequeueHead(q)>>]

\* A yield that goes into handleEvent with the mutex as it is.
KeepsMutexBeforeHandle(m) == m

\* Context::yield: controlBlock->mutex.unlock(), before handleEvent.
UnlockBeforeHandle(m) == Free

\* Context::yield: an event arrived since process(): unlock and handle it.
YieldRecheckFound(b) ==
    /\ ~aborted
    /\ pc[b] = "recheck"
    /\ RecheckFinds(mailbox[b])
    /\ mutex' = [mutex EXCEPT ![b] = UnlockBeforeHandle(@)]
    /\ mailbox' = [mailbox EXCEPT ![b] = RecheckTake(mailbox[b]).rest]
    /\ IF RecheckTake(mailbox[b]).handle # <<>>
       THEN /\ inHand' = [inHand EXCEPT ![b] = RecheckTake(mailbox[b]).handle[1]]
            /\ handledLog' = [handledLog EXCEPT ![b] =
                  Append(@, [ev |-> RecheckTake(mailbox[b]).handle[1], how |-> "recheck"])]
            /\ pc' = [pc EXCEPT ![b] = "handle"]
       ELSE /\ pc' = [pc EXCEPT ![b] = "process"]
            /\ UNCHANGED <<inHand, handledLog>>
    /\ UNCHANGED <<status, awaiting, readyQ, current, enabledMutex, notified, spc,
                   starget, spath, sent, freedLog, awaitRet, firstAfter, pendingAtBind,
                   enablesSince, aborted, bound>>
    /\ OutsideCon

\* Context::yield calls suspend on the scheduler of a fiber: Running ->
\* Suspended, the mutex is released and the worker goes back to its loop.
YieldSuspendFiber(b) ==
    /\ ~aborted
    /\ b = FiberBlock
    /\ pc[b] = "recheck"
    /\ ~RecheckFinds(mailbox[b])
    /\ status' = [status EXCEPT ![b] = Suspended]
    /\ mutex' = [mutex EXCEPT ![b] = Free]
    /\ current' = [w \in Workers |-> IF current[w] = b THEN "none" ELSE current[w]]
    /\ pc' = [pc EXCEPT ![b] = "parked"]
    /\ enablesSince' = [enablesSince EXCEPT ![b] = 0]
    /\ UNCHANGED <<mailbox, inHand, awaiting, readyQ, enabledMutex, notified, spc,
                   starget, spath, sent, handledLog, freedLog, awaitRet, firstAfter,
                   pendingAtBind, aborted, bound>>
    /\ OutsideCon

\* ThreadScheduler::suspend, up to lock.unlock(): Running -> Suspended, take
\* the mutex of the condition variable, release the control block's mutex.
ThreadSuspend(b) ==
    /\ ~aborted
    /\ b = ThreadBlock
    /\ pc[b] = "recheck"
    /\ ~RecheckFinds(mailbox[b])
    /\ enabledMutex = Free
    /\ status' = [status EXCEPT ![b] = Suspended]
    /\ enabledMutex' = Self
    /\ mutex' = [mutex EXCEPT ![b] = Free]
    /\ pc' = [pc EXCEPT ![b] = "cv_prewait"]
    /\ enablesSince' = [enablesSince EXCEPT ![b] = 0]
    /\ UNCHANGED <<mailbox, inHand, awaiting, readyQ, current, notified, spc, starget, spath,
                   sent, handledLog, freedLog, awaitRet, firstAfter, pendingAtBind,
                   aborted, bound>>
    /\ OutsideCon

\* ThreadScheduler::suspend: enabled.wait(enabledLock) releases the mutex of
\* the condition variable and blocks.
ThreadWait ==
    /\ ~aborted
    /\ pc[ThreadBlock] = "cv_prewait"
    /\ enabledMutex' = Free
    /\ notified' = FALSE
    /\ pc' = [pc EXCEPT ![ThreadBlock] = "cv_wait"]
    /\ UNCHANGED <<status, mutex, mailbox, inHand, awaiting, readyQ, current, spc,
                   starget, spath, sent, handledLog, freedLog, awaitRet, firstAfter,
                   pendingAtBind, enablesSince, aborted, bound>>
    /\ OutsideCon

\* The wait ends: by a notification, or spuriously (a condition-variable wait
\* without a predicate may return at any time). It returns with the mutex of
\* the condition variable held again.
ThreadWake ==
    /\ ~aborted
    /\ pc[ThreadBlock] = "cv_wait"
    /\ enabledMutex = Free
    /\ enabledMutex' = Self
    /\ notified' = FALSE
    /\ pc' = [pc EXCEPT ![ThreadBlock] = "cv_woken"]
    /\ UNCHANGED <<status, mutex, mailbox, inHand, awaiting, readyQ, current, spc,
                   starget, spath, sent, handledLog, freedLog, awaitRet, firstAfter,
                   pendingAtBind, enablesSince, aborted, bound>>
    /\ OutsideCon

\* A suspend that leaves the status as the wait found it.
StatusAfterWaitKept(old) == old

\* ThreadScheduler::suspend: controlBlock_->status = Running
StatusAfterWait(old) == Running

\* ThreadScheduler::suspend after the wait: assert(status == Scheduled), then
\* status = Running without the lock. When the assertion does not hold, a
\* build with assertions aborts the process and a build without goes on.
ThreadResume ==
    /\ ~aborted
    /\ pc[ThreadBlock] = "cv_woken"
    /\ \/ /\ status' = [status EXCEPT ![ThreadBlock] = StatusAfterWait(@)]
          /\ enabledMutex' = Free
          /\ pc' = [pc EXCEPT ![ThreadBlock] = "process"]
          /\ UNCHANGED aborted
       \/ /\ status[ThreadBlock] # Scheduled
          /\ aborted' = TRUE
          /\ UNCHANGED <<status, enabledMutex, pc>>
    /\ UNCHANGED <<mutex, mailbox, inHand, awaiting, readyQ, current, notified, spc,
                   starget, spath, sent, handledLog, freedLog, awaitRet, firstAfter,
                   pendingAtBind, enablesSince, bound>>
    /\ OutsideCon

\* The caller of Scheduler::yield hands it the lock of the block, held.
ThreadYieldBegin ==
    /\ ~aborted
    /\ pc[ThreadBlock] = "user"
    /\ mutex[ThreadBlock] = Free
    /\ mutex' = [mutex EXCEPT ![ThreadBlock] = Self]
    /\ pc' = [pc EXCEPT ![ThreadBlock] = "yield_locked"]
    /\ UNCHANGED <<status, mailbox, inHand, awaiting, readyQ, current, enabledMutex,
                   notified, spc, starget, spath, sent, handledLog, freedLog, awaitRet,
                   firstAfter, pendingAtBind, enablesSince, aborted, bound>>
    /\ OutsideCon

\* A yield that returns with the lock it was handed still held.
YieldKeepsLock(m) == m

\* ThreadScheduler::yield: lock.unlock()
YieldUnlocks(m) == Free

\* ThreadScheduler::yield: unlock, std::this_thread::yield(), return. The
\* status stays Running.
ThreadYield ==
    /\ ~aborted
    /\ pc[ThreadBlock] = "yield_locked"
    /\ mutex' = [mutex EXCEPT ![ThreadBlock] = YieldUnlocks(@)]
    /\ pc' = [pc EXCEPT ![ThreadBlock] = "user"]
    /\ UNCHANGED <<status, mailbox, inHand, awaiting, readyQ, current, enabledMutex,
                   notified, spc, starget, spath, sent, handledLog, freedLog, awaitRet,
                   firstAfter, pendingAtBind, enablesSince, aborted, bound>>
    /\ OutsideCon

\* ThreadScheduler::terminate: status = Dead, written without taking the
\* mutex of the block; the thread then exits. A sender that reads the status
\* at the same moment, under the mutex, sees Running or Dead, and enables for
\* neither.
ThreadTerminate ==
    /\ ~aborted
    /\ pc[ThreadBlock] = "user"
    /\ status' = [status EXCEPT ![ThreadBlock] = Dead]
    /\ schDrops' = schDrops + 1
    /\ schRef' = FALSE
    /\ pc' = [pc EXCEPT ![ThreadBlock] = "exited"]
    /\ UNCHANGED <<mutex, mailbox, inHand, awaiting, readyQ, current, enabledMutex,
                   notified, spc, starget, spath, sent, handledLog, freedLog, awaitRet,
                   firstAfter, pendingAtBind, enablesSince, aborted, bound>>
    /\ UNCHANGED schLive
    /\ OutsideThread

\* ---------------------------------------------------------------- workers
\* The worker loop of a FiberScheduler: pop a block from the front of the own
\* ready queue and jump into it; the resumed fiber sets Scheduled -> Running.
WorkerResume(w) ==
    /\ ~aborted
    /\ current[w] = "none"
    /\ readyQ[w] # <<>>
    /\ LET b == Head(readyQ[w])
       IN  /\ readyQ' = [readyQ EXCEPT ![w] = Tail(@)]
           /\ current' = [current EXCEPT ![w] = b]
           /\ status' = [status EXCEPT ![b] = Running]
           /\ pc' = [pc EXCEPT ![b] = IF pc[b] = "created" THEN "user" ELSE "process"]
    /\ UNCHANGED <<mutex, mailbox, inHand, awaiting, enabledMutex, notified, spc,
                   starget, spath, sent, handledLog, freedLog, awaitRet, firstAfter,
                   pendingAtBind, enablesSince, aborted, bound>>
    /\ OutsideCon

\* tryToStealTask of a FiberScheduler: with an empty queue of its own, the
\* worker pops a block from the back of a victim's queue and jumps into it.
WorkerSteal(w, v) ==
    /\ ~aborted
    /\ w # v
    /\ current[w] = "none"
    /\ readyQ[w] = <<>>
    /\ readyQ[v] # <<>>
    /\ LET b == readyQ[v][Len(readyQ[v])]
       IN  /\ readyQ' = [readyQ EXCEPT ![v] = SubSeq(@, 1, Len(@) - 1)]
           /\ current' = [current EXCEPT ![w] = b]
           /\ status' = [status EXCEPT ![b] = Running]
           /\ pc' = [pc EXCEPT ![b] = IF pc[b] = "created" THEN "user" ELSE "process"]
    /\ UNCHANGED <<mutex, mailbox, inHand, awaiting, enabledMutex, notified, spc,
                   starget, spath, sent, handledLog, freedLog, awaitRet, firstAfter,
                   pendingAtBind, enablesSince, aborted, bound>>
    /\ OutsideCon

\* ---------------------------------------------------------------- senders
\* main hands every sender the FiberRef of the block it will send to.
HandOutRefs ==
    /\ ~aborted
    /\ \A s \in Senders : spc[s] = "noref"
    /\ starget' \in [Senders -> Blocks]
    /\ spc' = [s \in Senders |-> "idle"]
    /\ UNCHANGED <<status, mutex, mailbox, pc, inHand, awaiting, readyQ, current,
                   enabledMutex, notified, spath, sent, handledLog, freedLog, awaitRet,
                   firstAfter, pendingAtBind, enablesSince, aborted, bound>>
    /\ OutsideCon

\* LocalFiberRef::send: the event is enqueued into the target's mailbox.
SendEnqueue(s) ==
    /\ ~aborted
    /\ spc[s] = "idle"
    /\ sent[s] < MaxSends
    /\ LET b == starget[s]
           p == spath[s]
           e == [from |-> s, seq |-> sent[s] + 1, path |-> p]
       IN  /\ mailbox' = [mailbox EXCEPT ![b] = Enqueue(@, e)]
           /\ firstAfter' = [firstAfter EXCEPT ![b] =
                                IF awaiting[b] /\ p = "P" /\ @ = NoEvent THEN e ELSE @]
    /\ sent' = [sent EXCEPT ![s] = @ + 1]
    /\ spc' = [spc EXCEPT ![s] = "enqueued"]
    /\ UNCHANGED <<status, mutex, pc, inHand, awaiting, readyQ, current, enabledMutex,
                   notified, starget, spath, handledLog, freedLog, awaitRet, pendingAtBind,
                   enablesSince, aborted, bound>>
    /\ OutsideCon

\* LocalFiberRef::send: the sender takes the mutex of the target.
SendLock(s) ==
    /\ ~aborted
    /\ spc[s] = "enqueued"
    /\ mutex[starget[s]] = Free
    /\ mutex' = [mutex EXCEPT ![starget[s]] = s]
    /\ spc' = [spc EXCEPT ![s] = "locked"]
    /\ UNCHANGED <<status, mailbox, pc, inHand, awaiting, readyQ, current, enabledMutex,
                   notified, starget, spath, sent, handledLog, freedLog, awaitRet, firstAfter,
                   pendingAtBind, enablesSince, aborted, bound>>
    /\ OutsideCon

\* LocalFiberRef::send: the target is not Suspended; the sender unlocks.
SendNoEnable(s) ==
    /\ ~aborted
    /\ spc[s] = "locked"
    /\ status[starget[s]] # Suspended
    /\ mutex' = [mutex EXCEPT ![starget[s]] = Free]
    /\ spc' = [spc EXCEPT ![s] = "idle"]
    /\ UNCHANGED <<status, mailbox, pc, inHand, awaiting, readyQ, current, enabledMutex,
                   notified, starget, spath, sent, handledLog, freedLog, awaitRet, firstAfter,
                   pendingAtBind, enablesSince, aborted, bound>>
    /\ OutsideCon

\* An enableFiber that hands the block to every scheduler.
EnableOnEveryScheduler(i) == Workers

\* ThreadScheduler::enableFiber: the block goes to the one scheduler drawn, i.
EnableFiberOn(i) == {i}

\* FiberScheduler::enableFiber called on scheduler i: the block goes to the
\* ready queue of the scheduler it is bound to when it is pinned, else to i's.
QueueFor(i, b) == IF bound[b] # 0 THEN bound[b] ELSE i

\* The blocks are pushed on the ready queues of the schedulers of set ws.
RECURSIVE PushOn(_, _, _)
PushOn(q, ws, b) ==
    IF ws = {} THEN q
    ELSE LET w == CHOOSE x \in ws : TRUE
         IN  PushOn([q EXCEPT ![w] = Append(@, b)], ws \ {w}, b)

\* LocalFiberRef::send finds a fiber Suspended and enables it through the
\* sender's scheduler: ThreadScheduler::enableFiber draws a scheduler, whose
\* enableFiber sets Suspended -> Scheduled, pushes the block and unlocks.
SendEnableFiber(s) ==
    /\ ~aborted
    /\ spc[s] = "locked"
    /\ starget[s] = FiberBlock
    /\ status[FiberBlock] = Suspended
    /\ \E i \in Workers :
          readyQ' = PushOn(readyQ, {QueueFor(w, FiberBlock) : w \in EnableFiberOn(i)},
                           FiberBlock)
    /\ status' = [status EXCEPT ![FiberBlock] = Scheduled]
    /\ mutex' = [mutex EXCEPT ![FiberBlock] = Free]
    /\ enablesSince' = [enablesSince EXCEPT ![FiberBlock] = @ + 1]
    /\ spc' = [spc EXCEPT ![s] = "idle"]
    /\ UNCHANGED <<mailbox, pc, inHand, awaiting, current, enabledMutex, notified,
                   starget, spath, sent, handledLog, freedLog, awaitRet, firstAfter,
                   pendingAtBind, aborted, bound>>
    /\ OutsideCon

\* LocalFiberRef::send finds the fiberized thread Suspended and enables it:
\* Suspended -> Scheduled, then the condition variable is signalled with its
\* mutex held, and the locks are released.
SendEnableThread(s) ==
    /\ ~aborted
    /\ spc[s] = "locked"
    /\ starget[s] = ThreadBlock
    /\ status[ThreadBlock] = Suspended
    /\ enabledMutex = Free
    /\ status' = [status EXCEPT ![ThreadBlock] = Scheduled]
    /\ notified' = (pc[ThreadBlock] = "cv_wait")
    /\ mutex' = [mutex EXCEPT ![ThreadBlock] = Free]
    /\ enablesSince' = [enablesSince EXCEPT ![ThreadBlock] = @ + 1]
    /\ spc' = [spc EXCEPT ![s] = "idle"]
    /\ UNCHANGED <<mailbox, pc, inHand, awaiting, readyQ, current, enabledMutex,
                   starget, spath, sent, handledLog, freedLog, awaitRet, firstAfter,
                   pendingAtBind, aborted, bound>>
    /\ OutsideCon

ConNext ==
    \/ \E b \in Blocks : AwaitBegin(b)
    \/ \E b \in Blocks : ProcessDequeue(b)
    \/ \E b \in Blocks : ProcessEmpty(b)
    \/ \E b \in Blocks : HandleFinish(b)
    \/ \E b \in Blocks : YieldLock(b)
    \/ \E b \in Blocks : YieldRecheckFound(b)
    \/ \E b \in Blocks : YieldSuspendFiber(b)
    \/ \E b \in Blocks : ThreadSuspend(b)
    \/ ThreadWait
    \/ ThreadWake
    \/ ThreadResume
    \/ ThreadYieldBegin
    \/ ThreadYield
    \/ ThreadTerminate
    \/ \E w \in Workers : WorkerResume(w)
    \/ \E w, v \in Workers : WorkerSteal(w, v)
    \/ HandOutRefs
    \/ \E s \in Senders : SendEnqueue(s)
    \/ \E s \in Senders : SendLock(s)
    \/ \E s \in Senders : SendNoEnable(s)
    \/ \E s \in Senders : SendEnableFiber(s)
    \/ \E s \in Senders : SendEnableThread(s)

\* ---------------------------------------------------------------- the thread
\* ThreadScheduler::ThreadScheduler: controlBlock_(controlBlock)
SchInit ==
    /\ schRef = TRUE
    /\ schDrops = 0
    /\ schLive = TRUE

\* ThreadScheduler::~ThreadScheduler: if (controlBlock_ != nullptr) drop()
DropsInDestructor(ref) == IF ref THEN 1 ELSE 0

\* The ThreadScheduler is destroyed, when its thread has left through
\* terminate or when it stops being a fiberized thread from user code.
ThreadSchedulerDestroy ==
    /\ ~aborted
    /\ schLive
    /\ pc[ThreadBlock] \in {"user", "exited"}
    /\ schDrops' = schDrops + DropsInDestructor(schRef)
    /\ schLive' = FALSE
    /\ pc' = [pc EXCEPT ![ThreadBlock] = "exited"]
    /\ UNCHANGED <<status, mutex, mailbox, inHand, awaiting, readyQ, current, enabledMutex,
                   notified, spc, starget, spath, sent, handledLog, freedLog, awaitRet,
                   firstAfter, pendingAtBind, enablesSince, aborted, bound>>
    /\ UNCHANGED schRef
    /\ OutsideThread

\* LocalFiberRef::send, holding the mutex of the thread's block, reads the
\* status and finds Suspended. The thread writes the status without that
\* mutex after its wait and in terminate, so the read and the write that
\* follows it are two steps.
SendSeesSuspended(s) ==
    /\ ~aborted
    /\ spc[s] = "locked"
    /\ starget[s] = ThreadBlock
    /\ status[ThreadBlock] = Suspended
    /\ spc' = [spc EXCEPT ![s] = "enabling"]
    /\ UNCHANGED <<status, mutex, mailbox, pc, inHand, awaiting, readyQ, current,
                   enabledMutex, notified, starget, spath, sent, handledLog, freedLog,
                   awaitRet, firstAfter, pendingAtBind, enablesSince, aborted, bound>>
    /\ OutsideCon

\* The enable that follows: the status is set to Scheduled, the condition
\* variable is signalled with its mutex held, and the locks are released.
SendSignals(s) ==
    /\ ~aborted
    /\ spc[s] = "enabling"
    /\ enabledMutex = Free
    /\ status' = [status EXCEPT ![ThreadBlock] = Scheduled]
    /\ notified' = (pc[ThreadBlock] = "cv_wait")
    /\ mutex' = [mutex EXCEPT ![ThreadBlock] = Free]
    /\ enablesSince' = [enablesSince EXCEPT ![ThreadBlock] = @ + 1]
    /\ spc' = [spc EXCEPT ![s] = "idle"]
    /\ UNCHANGED <<mailbox, pc, inHand, awaiting, readyQ, current, enabledMutex,
                   starget, spath, sent, handledLog, freedLog, awaitRet, firstAfter,
                   pendingAtBind, aborted, bound>>
    /\ OutsideCon

\* The senders hold references to the block of the fiberized thread.
ConInitThread ==
    /\ bound = [b \in Blocks |-> 0]
    /\ status = [b \in Blocks |-> IF b = FiberBlock THEN Scheduled ELSE Running]
    /\ mutex = [b \in Blocks |-> Free]
    /\ mailbox = [b \in Blocks |-> <<>>]
    /\ pc = [b \in Blocks |-> IF b = FiberBlock THEN "created" ELSE "user"]
    /\ inHand = [b \in Blocks |-> NoEvent]
    /\ awaiting = [b \in Blocks |-> FALSE]
    /\ readyQ = [w \in Workers |-> IF w = 1 THEN <<FiberBlock>> ELSE <<>>]
    /\ current = [w \in Workers |-> "none"]
    /\ enabledMutex = Free
    /\ notified = FALSE
    /\ spc = [s \in Senders |-> "idle"]
    /\ starget = [s \in Senders |-> ThreadBlock]
    /\ spath \in [Senders -> Paths]
    /\ sent = [s \in Senders |-> 0]
    /\ handledLog = [b \in Blocks |-> <<>>]
    /\ freedLog = [b \in Blocks |-> <<>>]
    /\ awaitRet = [b \in Blocks |-> NoEvent]
    /\ firstAfter = [b \in Blocks |-> NoEvent]
    /\ pendingAtBind = [b \in Blocks |-> FALSE]
    /\ enablesSince = [b \in Blocks |-> 0]
    /\ aborted = FALSE

\* The fiberized thread and the senders to it.
ThreadNext ==
    \/ AwaitBegin(ThreadBlock)
    \/ ProcessDequeue(ThreadBlock)
    \/ ProcessEmpty(ThreadBlock)
    \/ HandleFinish(ThreadBlock)
    \/ YieldLock(ThreadBlock)
    \/ YieldRecheckFound(ThreadBlock)
    \/ ThreadSuspend(ThreadBlock)
    \/ ThreadWait
    \/ ThreadWake
    \/ ThreadResume
    \/ ThreadYieldBegin
    \/ ThreadYield
    \/ ThreadTerminate
    \/ ThreadSchedulerDestroy
    \/ \E s \in Senders : SendEnqueue(s)
    \/ \E s \in Senders : SendLock(s)
    \/ \E s \in Senders : SendNoEnable(s)
    \/ \E s \in Senders : SendSeesSuspended(s)
    \/ \E s \in Senders : SendSignals(s)

\* ---------------------------------------------------------------- handlers
\* that send. A handler that runs for block b sends an event to the other
\* block; the thread that performs the send is the owner of b.
HsInit == hsSent = [b \in Blocks |-> 0]

Other(b) == IF b = FiberBlock THEN ThreadBlock ELSE FiberBlock

\* The owner of block b as the holder of another block's mutex.
OwnerId(b) == IF b = FiberBlock THEN 0 - 2 ELSE 0 - 3

\* LocalFiberRef::send called from a handler: the event is enqueued.
HandlerSendEnqueue(b) ==
    /\ ~aborted
    /\ pc[b] = "handle"
    /\ hsSent[b] < MaxHandlerSends
    /\ hsSent' = [hsSent EXCEPT ![b] = @ + 1]
    /\ mailbox' = [mailbox EXCEPT ![Other(b)] =
                      Enqueue(@, [from |-> 0, seq |-> hsSent[b] + 1, path |-> "Q"])]
    /\ pc' = [pc EXCEPT ![b] = "hsend_enqueued"]
    /\ UNCHANGED <<status, mutex, inHand, awaiting, readyQ, current, enabledMutex,
                   notified, spc, starget, spath, sent, handledLog, freedLog, awaitRet,
                   firstAfter, pendingAtBind, enablesSince, aborted, bound>>
    /\ OutsideHandlerSend

\* LocalFiberRef::send called from a handler: the mutex of the receiver is
\* acquired.
HandlerSendLock(b) ==
    /\ ~aborted
    /\ pc[b] = "hsend_enqueued"
    /\ mutex[Other(b)] = Free
    /\ mutex' = [mutex EXCEPT ![Other(b)] = OwnerId(b)]
    /\ pc' = [pc EXCEPT ![b] = "hsend_locked"]
    /\ UNCHANGED <<status, mailbox, inHand, awaiting, readyQ, current, enabledMutex,
                   notified, spc, starget, spath, sent, handledLog, freedLog, awaitRet,
                   firstAfter, pendingAtBind, enablesSince, aborted, bound>>
    /\ UNCHANGED hsSent
    /\ OutsideHandlerSend

\* The receiver is not Suspended: the mutex is released and the handler goes
\* on.
HandlerSendNoEnable(b) ==
    /\ ~aborted
    /\ pc[b] = "hsend_locked"
    /\ status[Other(b)] # Suspended
    /\ mutex' = [mutex EXCEPT ![Other(b)] = Free]
    /\ pc' = [pc EXCEPT ![b] = "handle"]
    /\ UNCHANGED <<status, mailbox, inHand, awaiting, readyQ, current, enabledMutex,
                   notified, spc, starget, spath, sent, handledLog, freedLog, awaitRet,
                   firstAfter, pendingAtBind, enablesSince, aborted, bound>>
    /\ UNCHANGED hsSent
    /\ OutsideHandlerSend

\* A handler of the fiberized thread finds the fiber Suspended:
\* ThreadScheduler::enableFiber draws a scheduler and hands it the block and
\* the lock; that scheduler sets Scheduled, pushes the block and unlocks.
HandlerSendEnableFiber ==
    /\ ~aborted
    /\ pc[ThreadBlock] = "hsend_locked"
    /\ status[FiberBlock] = Suspended
    /\ \E i \in Workers :
          readyQ' = PushOn(readyQ, {QueueFor(w, FiberBlock) : w \in EnableFiberOn(i)},
                           FiberBlock)
    /\ status' = [status EXCEPT ![FiberBlock] = Scheduled]
    /\ mutex' = [mutex EXCEPT ![FiberBlock] = Free]
    /\ enablesSince' = [enablesSince EXCEPT ![FiberBlock] = @ + 1]
    /\ pc' = [pc EXCEPT ![ThreadBlock] = "handle"]
    /\ UNCHANGED <<mailbox, inHand, awaiting, current, enabledMutex, notified, spc,
                   starget, spath, sent, handledLog, freedLog, awaitRet, firstAfter,
                   pendingAtBind, aborted, bound>>
    /\ UNCHANGED hsSent
    /\ OutsideHandlerSend

\* A handler of the fiber finds the fiberized thread Suspended: Scheduled,
\* the condition variable is signalled, and the locks are released.
HandlerSendEnableThread ==
    /\ ~aborted
    /\ pc[FiberBlock] = "hsend_locked"
    /\ status[ThreadBlock] = Suspended
    /\ enabledMutex = Free
    /\ status' = [status EXCEPT ![ThreadBlock] = Scheduled]
    /\ notified' = (pc[ThreadBlock] = "cv_wait")
    /\ mutex' = [mutex EXCEPT ![ThreadBlock] = Free]
    /\ enablesSince' = [enablesSince EXCEPT ![ThreadBlock] = @ + 1]
    /\ pc' = [pc EXCEPT ![FiberBlock] = "handle"]
    /\ UNCHANGED <<mailbox, inHand, awaiting, readyQ, current, enabledMutex, spc,
                   starget, spath, sent, handledLog, freedLog, awaitRet, firstAfter,
                   pendingAtBind, aborted, bound>>
    /\ UNCHANGED hsSent
    /\ OutsideHandlerSend

\* The first sender holds a reference to the block of the fiberized thread;
\* the second holds one to the block of the fiber and sends nothing, the
\* events of the fiber coming from the handlers of the thread.
ConInitHandlerSend ==
    /\ bound = [b \in Blocks |-> 0]
    /\ status = [b \in Blocks |-> IF b = FiberBlock THEN Scheduled ELSE Running]
    /\ mutex = [b \in Blocks |-> Free]
    /\ mailbox = [b \in Blocks |-> <<>>]
    /\ pc = [b \in Blocks |-> IF b = FiberBlock THEN "created" ELSE "user"]
    /\ inHand = [b \in Blocks |-> NoEvent]
    /\ awaiting = [b \in Blocks |-> FALSE]
    /\ readyQ = [w \in Workers |-> IF w = 1 THEN <<FiberBlock>> ELSE <<>>]
    /\ current = [w \in Workers |-> "none"]
    /\ enabledMutex = Free
    /\ notified = FALSE
    /\ spc = [s \in Senders |-> IF s = 1 THEN "idle" ELSE "holder"]
    /\ starget = [s \in Senders |-> IF s = 1 THEN ThreadBlock ELSE FiberBlock]
    /\ spath = [s \in Senders |-> "P"]
    /\ sent = [s \in Senders |-> 0]
    /\ handledLog = [b \in Blocks |-> <<>>]
    /\ freedLog = [b \in Blocks |-> <<>>]
    /\ awaitRet = [b \in Blocks |-> NoEvent]
    /\ firstAfter = [b \in Blocks |-> NoEvent]
    /\ pendingAtBind = [b \in Blocks |-> FALSE]
    /\ enablesSince = [b \in Blocks |-> 0]
    /\ aborted = FALSE

\* The fiber, the fiberized thread, their handlers that send, and a sender.
HandlerSendNext ==
    \/ \E b \in Blocks : AwaitBegin(b)
    \/ \E b \in Blocks : ProcessDequeue(b)
    \/ \E b \in Blocks : ProcessEmpty(b)
    \/ \E b \in Blocks : HandleFinish(b)
    \/ \E b \in Blocks : YieldLock(b)
    \/ \E b \in Blocks : YieldRecheckFound(b)
    \/ \E b \in Blocks : YieldSuspendFiber(b)
    \/ \E b \in Blocks : ThreadSuspend(b)
    \/ ThreadWait
    \/ ThreadWake
    \/ ThreadResume
    \/ ThreadYieldBegin
    \/ ThreadYield
    \/ \E w \in Workers : WorkerResume(w)
    \/ \E w, v \in Workers : WorkerSteal(w, v)
    \/ \E s \in Senders : SendEnqueue(s)
    \/ \E s \in Senders : SendLock(s)
    \/ \E s \in Senders : SendNoEnable(s)
    \/ \E s \in Senders : SendEnableThread(s)
    \/ \E b \in Blocks : HandlerSendEnqueue(b)
    \/ \E b \in Blocks : HandlerSendLock(b)
    \/ \E b \in Blocks : HandlerSendNoEnable(b)
    \/ HandlerSendEnableFiber
    \/ HandlerSendEnableThread

(***************************************************************************)
(* Fiber::_execute                                                         *)
(***************************************************************************)
FibInit ==
    /\ runPc = [f \in Fibers |-> "created"]
    /\ runOutcome = [f \in Fibers |-> "none"]
    /\ parentEvents = [f \in Fibers |-> <<>>]

\* Fiber::_execute is entered and the finished event is made from its path.
ExecuteBegin(f) ==
    /\ runPc[f] = "created"
    /\ runPc' = [runPc EXCEPT ![f] = "try"]
    /\ UNCHANGED <<runOutcome, parentEvents>>
    /\ OutsideFiber

\* Fiber::_execute evaluates run(): it returns a value or it raises, and a
\* raise enters the catch block.
ExecuteRun(f) ==
    /\ runPc[f] = "try"
    /\ \E o \in {"returned", "raised"} :
          /\ runOutcome' = [runOutcome EXCEPT ![f] = o]
          /\ runPc' = [runPc EXCEPT ![f] = IF o = "returned" THEN "emit" ELSE "catch"]
    /\ UNCHANGED parentEvents
    /\ OutsideFiber

\* An emit of the finished event that raises after it has delivered.
EmitFinishedRaises(pos) == "catch"

\* Fiber::_execute: parent.emit(finished, ...) returns and the try block ends.
AfterEmitFinished(pos) == "done"

\* Fiber::_execute: controlBlock->parent.emit(finished, run())
ExecuteEmitFinished(f) ==
    /\ runPc[f] = "emit"
    /\ parentEvents' = [parentEvents EXCEPT ![f] = Append(@, "finished")]
    /\ runPc' = [runPc EXCEPT ![f] = AfterEmitFinished(@)]
    /\ UNCHANGED runOutcome
    /\ OutsideFiber

\* Fiber::_execute, the catch block: controlBlock->parent.emit(crashed)
ExecuteEmitCrashed(f) ==
    /\ runPc[f] = "catch"
    /\ parentEvents' = [parentEvents EXCEPT ![f] = Append(@, "crashed")]
    /\ runPc' = [runPc EXCEPT ![f] = "done"]
    /\ UNCHANGED runOutcome
    /\ OutsideFiber

FibNext ==
    \/ \E f \in Fibers : ExecuteBegin(f)
    \/ \E f \in Fibers : ExecuteRun(f)
    \/ \E f \in Fibers : ExecuteEmitFinished(f)
    \/ \E f \in Fibers : ExecuteEmitCrashed(f)

(***************************************************************************)
(* The ping-pong program                                                   *)
(***************************************************************************)
PingFiber == "Ping"
PongFiber == "Pong"
MainThread == "main"
Parties == {PingFiber, PongFiber, MainThread}

\* main has called run for Ping and for Pong; neither has started yet.
PPInitWith(program) ==
    /\ ppProgram = program
    /\ ppMain = "emit1"
    /\ ppPc = [f \in Parties |-> IF f = MainThread THEN "main" ELSE "created"]
    /\ ppBox = [f \in Parties |-> <<>>]
    /\ ppOut = <<>>
    /\ ppDropped = <<>>

PPInit == PPInitWith("emit-both")

\* main: the first init. examples/pingpong sends it to Ping; the program with
\* the handshake sends it to Pong and then awaits ready.
MainEmitFirst ==
    /\ ppMain = "emit1"
    /\ IF ppProgram = "emit-both"
       THEN /\ ppBox' = [ppBox EXCEPT ![PingFiber] = Append(@, "init")]
            /\ ppMain' = "emit2"
       ELSE /\ ppBox' = [ppBox EXCEPT ![PongFiber] = Append(@, "init")]
            /\ ppMain' = "await_ready"
    /\ UNCHANGED <<ppProgram, ppPc, ppOut, ppDropped>>
    /\ OutsidePingPong

\* main: ready.await() returns when the ready event is dequeued.
MainAwaitReady ==
    /\ ppMain = "await_ready"
    /\ ppBox[MainThread] # <<>>
    /\ ppBox' = [ppBox EXCEPT ![MainThread] = Tail(@)]
    /\ IF Head(ppBox[MainThread]) = "ready"
       THEN ppMain' = "emit2" /\ UNCHANGED ppDropped
       ELSE /\ ppDropped' = Append(ppDropped, [to |-> MainThread,
                                               ev |-> Head(ppBox[MainThread])])
            /\ UNCHANGED ppMain
    /\ UNCHANGED <<ppProgram, ppPc, ppOut>>
    /\ OutsidePingPong

\* main: the second init, to the other fiber; main then only pumps events.
MainEmitSecond ==
    /\ ppMain = "emit2"
    /\ IF ppProgram = "emit-both"
       THEN ppBox' = [ppBox EXCEPT ![PongFiber] = Append(@, "init")]
       ELSE ppBox' = [ppBox EXCEPT ![PingFiber] = Append(@, "init")]
    /\ ppMain' = "pump"
    /\ UNCHANGED <<ppProgram, ppPc, ppOut, ppDropped>>
    /\ OutsidePingPong

\* The event the fiber's await has bound a handler for.
Awaited(f) ==
    CASE ppPc[f] = "await_init" -> "init"
      [] ppPc[f] = "await_ping" -> "ping"
      [] ppPc[f] = "await_pong" -> "pong"
      [] OTHER -> "-"

\* Where run() goes on when the await returns.
AfterAwait(f) ==
    IF f = PingFiber THEN "print"
    ELSE IF ppPc[f] = "await_init"
         THEN (IF ppProgram = "emit-both" THEN "bind_ping" ELSE "send_ready")
         ELSE "print"

\* Event::await binds its handler and then yields: from "created" (the worker
\* starts run(), which begins with init.await()) or from "bind_x".
FiberBegin(f) ==
    /\ f # MainThread
    /\ ppPc[f] \in {"created", "bind_ping", "bind_pong"}
    /\ ppPc' = [ppPc EXCEPT ![f] = CASE @ = "created" -> "await_init"
                                      [] @ = "bind_ping" -> "await_ping"
                                      [] OTHER -> "await_pong"]
    /\ UNCHANGED <<ppProgram, ppMain, ppBox, ppOut, ppDropped>>
    /\ OutsidePingPong

\* A fiber inside await: yield's process() dequeues an event. The handler of
\* the await raises EventFired for its own event; for any other path
\* handleEvent finds no handler block (the awaits made earlier have ended and
\* released their bindings), returns, and process frees the event.
FiberAwaitStep(f) ==
    /\ f # MainThread
    /\ Awaited(f) # "-"
    /\ ppBox[f] # <<>>
    /\ LET e == Head(ppBox[f])
       IN  IF e = Awaited(f)
           THEN /\ ppPc' = [ppPc EXCEPT ![f] = AfterAwait(f)]
                /\ ppBox' = [ppBox EXCEPT ![f] = Tail(@)]
                /\ UNCHANGED ppDropped
           ELSE /\ ppDropped' = Append(ppDropped, [to |-> f, ev |-> e])
                /\ ppBox' = [ppBox EXCEPT ![f] = Tail(@)]
                /\ UNCHANGED ppPc
    /\ UNCHANGED <<ppProgram, ppMain, ppOut>>
    /\ OutsidePingPong

\* Pong: mainFiber.send(ready)
PongSendReady ==
    /\ ppPc[PongFiber] = "send_ready"
    /\ ppBox' = [ppBox EXCEPT ![MainThread] = Append(@, "ready")]
    /\ ppPc' = [ppPc EXCEPT ![PongFiber] = "bind_ping"]
    /\ UNCHANGED <<ppProgram, ppMain, ppOut, ppDropped>>
    /\ OutsidePingPong

\* std::cout << "Ping" or "Pong"
FiberPrint(f) ==
    /\ f # MainThread
    /\ ppPc[f] = "print"
    /\ Len(ppOut) < MaxLines
    /\ ppOut' = Append(ppOut, f)
    /\ ppPc' = [ppPc EXCEPT ![f] = "send"]
    /\ UNCHANGED <<ppProgram, ppMain, ppBox, ppDropped>>
    /\ OutsidePingPong

\* peer.emit(ping) in Ping, peer.emit(pong) in Pong; the loop goes on with
\* the await.
FiberSend(f) ==
    /\ f # MainThread
    /\ ppPc[f] = "send"
    /\ IF f = PingFiber
       THEN /\ ppBox' = [ppBox EXCEPT ![PongFiber] = Append(@, "ping")]
            /\ ppPc' = [ppPc EXCEPT ![f] = "bind_pong"]
       ELSE /\ ppBox' = [ppBox EXCEPT ![PingFiber] = Append(@, "pong")]
            /\ ppPc' = [ppPc EXCEPT ![f] = "bind_ping"]
    /\ UNCHANGED <<ppProgram, ppMain, ppOut, ppDropped>>
    /\ OutsidePingPong

PPNext ==
    \/ MainEmitFirst
    \/ MainAwaitReady
    \/ MainEmitSecond
    \/ \E f \in Parties : FiberBegin(f)
    \/ \E f \in Parties : FiberAwaitStep(f)
    \/ PongSendReady
    \/ \E f \in Parties : FiberPrint(f)
    \/ \E f \in Parties : FiberSend(f)

(***************************************************************************)
(* One fiber that nests awaits                                             *)
(***************************************************************************)
\* Two events the fiber awaits, and one for which it has bound a handler whose
\* body awaits.
AwaitPaths == {"P", "Q"}
HandlerPath == "R"
EventPaths == AwaitPaths \cup {HandlerPath}
PayloadTypes == {"Unit", "FiberRef"}

AwInitWith(types) ==
    /\ aType = types
    /\ aFrames = <<>>
    /\ aBox = <<>>
    /\ aSent = 0
    /\ aReturns = <<>>

AwInit == AwInitWith([p \in AwaitPaths |-> IF p = "P" THEN "FiberRef" ELSE "Unit"])

\* The paths of the awaits in progress.
Awaiting == {aFrames[i].path : i \in {j \in 1..Len(aFrames) : aFrames[j].kind = "await"}}

\* A sender enqueues an event.
AwSend ==
    /\ aSent < MaxAwaitEvents
    /\ \E p \in EventPaths : aBox' = Append(aBox, p)
    /\ aSent' = aSent + 1
    /\ UNCHANGED <<aType, aFrames, aReturns>>
    /\ OutsideAwait

\* Event::await: bind the handler and yield. It is called by run() or by the
\* body of the handler bound for R.
AwAwait ==
    /\ Len(aFrames) < MaxDepth
    /\ IF aFrames = <<>> THEN TRUE ELSE aFrames[Len(aFrames)].kind = "handler"
    /\ \E p \in AwaitPaths \ Awaiting :
          aFrames' = Append(aFrames, [kind |-> "await", path |-> p])
    /\ UNCHANGED <<aType, aBox, aSent, aReturns>>
    /\ OutsideAwait

\* The try block that catches an EventFired of the type thrown: the innermost
\* await in progress whose Event<A> has that payload type (EventFired is a
\* member of the class template Event<A>, one type per A). 0: none.
CatchingFrame(frames, thrown) ==
    LET same == {i \in 1..Len(frames) :
                    frames[i].kind = "await" /\ aType[frames[i].path] = thrown}
    IN  IF same = {} THEN 0 ELSE CHOOSE i \in same : \A j \in same : j <= i

\* The yield of the innermost await dequeues an event and handleEvent
\* dispatches it by its path: to the handler of R, whose body starts; to the
\* handler of an await in progress, which raises EventFired; or to nobody.
AwDispatch ==
    /\ aFrames # <<>>
    /\ aFrames[Len(aFrames)].kind = "await"
    /\ aBox # <<>>
    /\ aBox' = Tail(aBox)
    /\ LET e == Head(aBox)
       IN  IF e = HandlerPath
           THEN /\ Len(aFrames) < MaxDepth
                /\ aFrames' = Append(aFrames, [kind |-> "handler", path |-> e])
                /\ UNCHANGED aReturns
           ELSE IF e \in Awaiting
                THEN LET i == CatchingFrame(aFrames, aType[e])
                     IN  /\ aReturns' = Append(aReturns,
                                              [await |-> aFrames[i].path, event |-> e])
                         /\ aFrames' = SubSeq(aFrames, 1, i - 1)
                ELSE UNCHANGED <<aFrames, aReturns>>
    /\ UNCHANGED <<aType, aSent>>
    /\ OutsideAwait

\* The body of the handler of R returns.
AwHandlerReturn ==
    /\ aFrames # <<>>
    /\ aFrames[Len(aFrames)].kind = "handler"
    /\ aFrames' = SubSeq(aFrames, 1, Len(aFrames) - 1)
    /\ UNCHANGED <<aType, aBox, aSent, aReturns>>
    /\ OutsideAwait

AwNext ==
    \/ AwSend
    \/ AwAwait
    \/ AwDispatch
    \/ AwHandlerReturn

Init == SysInit /\ DspInit /\ ConInit /\ FibInit /\ PPInit /\ AwInit /\ SchInit /\ HsInit

SpecSys == Init /\ [][SysNext]_vars

\* The workers and the threads inside a call keep taking steps: a run call
\* that has begun completes, an executor with work starts and finishes it, and
\* the waiting loop of the main context keeps turning.
SysFairness ==
    /\ \A c \in Callers : WF_vars(RunCheck(c) \/ RunCreate(c) \/ RunBump(c)
                                    \/ RunDeadLetter(c))
    /\ \A e \in Executors : WF_vars(ExecStart(e) \/ FiberFinishedSub(e)
                                      \/ FiberFinishedEmit(e))
    /\ WF_vars(AwaitProcess \/ AwaitSleep)

SpecSysFair == Init /\ [][SysNext]_vars /\ SysFairness

SpecDispatch == Init /\ [][DspNext]_vars

Spec == Init /\ [][ConNext]_vars

InitPinned == SysInit /\ DspInit /\ ConInitPinned /\ FibInit /\ PPInit /\ AwInit /\ SchInit /\ HsInit

SpecPinned == InitPinned /\ [][ConNext]_vars

InitThread == SysInit /\ DspInit /\ ConInitThread /\ FibInit /\ PPInit /\ AwInit /\ SchInit /\ HsInit

SpecThread == InitThread /\ [][ThreadNext]_vars

InitHandlerSend ==
    /\ SysInit /\ DspInit /\ FibInit /\ PPInit /\ AwInit /\ SchInit /\ HsInit
    /\ ConInitHandlerSend

SpecHandlerSend == InitHandlerSend /\ [][HandlerSendNext]_vars

SpecFiber == Init /\ [][FibNext]_vars

\* Both ping-pong programs of the repository.
InitPingPong ==
    /\ SysInit /\ DspInit /\ ConInit /\ FibInit /\ AwInit /\ SchInit /\ HsInit
    /\ \E program \in {"emit-both", "ready"} : PPInitWith(program)

SpecPingPong == InitPingPong /\ [][PPNext]_vars

\* The awaited events have any payload types, the same one or different ones.
InitAwait ==
    /\ SysInit /\ DspInit /\ ConInit /\ FibInit /\ PPInit /\ SchInit /\ HsInit
    /\ \E types \in [AwaitPaths -> PayloadTypes] : AwInitWith(types)

SpecAwait == InitAwait /\ [][AwNext]_vars

(***************************************************************************)
(* Claims about the dispatch                                               *)
(***************************************************************************)

\* C6: within one dispatch the super() calls execute each handler at most once,
\* newest binding first (handler ids grow with the binding order), and never a
\* handler whose destroyed flag is set.
C6_EachLiveHandlerOnceNewestFirst ==
    /\ \A i, j \in 1..Len(hLog) : i < j => hLog[i].id > hLog[j].id
    /\ \A i \in 1..Len(hLog) : ~hLog[i].dead

\* C10: the first handler a dispatch executes is the most recently bound
\* non-destroyed handler; a handler bound before it executes only if a handler
\* bound after that one has called super(); and when the first handler has not
\* called super() it is the only handler that has run.
C10_NewestFirstOthersOnlyBySuper ==
    /\ hTop # 0 <=> hLog # <<>>
    /\ hLog # <<>> => hLog[1].id = hTop /\ hLog[1].by = 0
    /\ \A i \in 2..Len(hLog) :
          hLog[i].id < hTop => \E k \in 2..i : hLog[k].by > hLog[i].id
    /\ (hPc = "dispatch" /\ hFrames # <<>> /\ hFrames[1].supers = 0) => Len(hLog) = 1

\* C10 witness: with three live handlers the newest ran first, called super()
\* and the next handler ran; and a dispatch whose first handler returned without
\* super() is told apart by its log of one entry.
C10_Witness ==
    /\ hPc = "dispatch"
    /\ Len(hStack) = 3
    /\ hDestroyed = {}
    /\ Len(hLog) = 2
    /\ hLog[1].id = 3
    /\ hLog[2].id = 2
    /\ hLog[2].by = 3

(***************************************************************************)
(* Claims about the System                                                 *)
(***************************************************************************)

\* C4: allFibersFinished is emitted to the main fiber at most once in a System
\* lifetime, and never while a fiber that was started (or is started later) is
\* still unfinished.
C4_EmittedOnceAndNeverEarly ==
    /\ emitted <= 1
    /\ emitted >= 1 => \A f \in Fibers : fiberState[f] \notin {"queued", "executing"}

\* C5: a run call that begins after shutdown() has returned creates no fiber,
\* control block, stack or mailbox, hands nothing to an executor and returns a
\* dead-letter reference; and the shuttingDown flag, once set, stays set.
C5_RunAfterShutdownIsDeadLetter ==
    [][/\ shuttingDown => shuttingDown'
       /\ \A c \in Callers :
            (c \in InRun /\ callerAfter[c] /\ callerPc'[c] # callerPc[c]) =>
                /\ created' = created
                /\ execQueue' = execQueue
                /\ fiberState' = fiberState
                /\ running' = running
                /\ callerPc'[c] = "idle" => lastRef'[c] = "deadletter"]_vars

\* C5 witness: a run call made after shutdown() has returned a dead-letter
\* reference, in a system that did create fibers before the shutdown.
C5_Witness ==
    \E c \in Callers :
        /\ callerPc[c] = "idle"
        /\ callerAfter[c]
        /\ lastRef[c] = "deadletter"
        /\ created > 0

AllDestroyed == hBlock /\ \A i \in 1..Len(hStack) : hStack[i] \in hDestroyed

C11_Step ==
    /\ (AllDestroyed /\ HandleEvent) =>
          /\ hLog' = <<>>
          /\ hFrames' = <<>>
          /\ hPc' = "idle"
          /\ ~hBlock'
          /\ hStack' = <<>>
    /\ (~hBlock /\ Bind) => hBlock' /\ hStack' = <<hBound + 1>>

\* C11: when every handler bound for the path has been destroyed, handleEvent
\* executes no handler and erases the path's handler block; a bind made when
\* the path has no block creates a block that holds the new handler only.
C11_AllDestroyedBlockReclaimed ==
    [](~hBlock => hStack = <<>>) /\ [][C11_Step]_vars

\* Two handlers were bound and destroyed and an event has been handled: the
\* block is gone.
C11_Witness ==
    /\ ~hBlock
    /\ hPc = "idle"
    /\ hBound = 2
    /\ hDestroyed = {1, 2}


(***************************************************************************)
(* Claims about the send path, yield and the schedulers                    *)
(***************************************************************************)
InSend(b) == {s \in Senders : starget[s] = b /\ spc[s] \in {"enqueued", "locked"}}

C1_Dichotomy(b) ==
    \/ QueuedCount(b) = 0 /\ status[b] \in {Suspended, Running, Dead}
    \/ QueuedCount(b) = 1 /\ status[b] = Scheduled

C2_NoSuspendedWithMail ==
    \A b \in Blocks :
        ~(status[b] = Suspended /\ mailbox[b] # <<>> /\ InSend(b) = {})

C2_RecheckHandles ==
    \A b \in Blocks :
        (pc[b] = "recheck" /\ mailbox[b] # <<>> /\ pc'[b] # pc[b]) =>
            /\ pc'[b] = "handle"
            /\ status'[b] = status[b]
            /\ inHand'[b] = Head(mailbox[b])

\* C2: no receiver is ever Suspended with a non-empty mailbox while no sender
\* is between its enqueue and its status check; and a receiver that holds its
\* mutex and finds an event at the second look does not suspend: it handles
\* that event.
C2_NoLostWakeUp == []C2_NoSuspendedWithMail /\ [][C2_RecheckHandles]_vars

\* The event that arrived between the drain and the lock is being handled, and
\* the receiver has not suspended since the enqueue.
C2_Witness ==
    \E b \in Blocks :
        /\ pc[b] = "handle"
        /\ handledLog[b][Len(handledLog[b])].how = "recheck"
        /\ status[b] = Running

Elems(q) == {q[i] : i \in 1..Len(q)}
NoRepeat(q) == \A i, j \in 1..Len(q) : i # j => q[i] # q[j]
EnqueuedTo(b) ==
    {[from |-> s, seq |-> n, path |-> spath[s]] :
        s \in {t \in Senders : starget[t] = b}, n \in 1..MaxSends} \cap
    {e \in [from : Senders, seq : 1..MaxSends, path : Paths] : e.seq <= sent[e.from]}
HandledEvents(b) == {handledLog[b][i].ev : i \in 1..Len(handledLog[b])}
InHandSet(b) == IF inHand[b] = NoEvent THEN {} ELSE {inHand[b]}

\* C3: for every mailbox, freeData is called at most once per event and only
\* for events that were dequeued; every event dequeued, by process or by the
\* second look of yield, is passed to handleEvent once and is freed once when
\* handleEvent has returned or raised; every event enqueued is in the mailbox,
\* being handled, or freed.
C3_FreedOncePerDequeue ==
    \A b \in Blocks :
        /\ NoRepeat(freedLog[b])
        /\ NoRepeat(handledLog[b])
        /\ NoRepeat(mailbox[b])
        /\ Elems(freedLog[b]) \subseteq HandledEvents(b)
        /\ HandledEvents(b) = Elems(freedLog[b]) \cup InHandSet(b)
        /\ Elems(freedLog[b]) \cap InHandSet(b) = {}
        /\ HandledEvents(b) \cap Elems(mailbox[b]) = {}
        /\ EnqueuedTo(b) = Elems(mailbox[b]) \cup HandledEvents(b)
        /\ pc[b] = "handle" <=> inHand[b] # NoEvent

\* An event was freed after its handler returned and another after its handler
\* raised EventFired.
C3_Witness ==
    \E b \in Blocks :
        /\ \E e \in Elems(freedLog[b]) : e.path = "Q"
        /\ \E e \in Elems(freedLog[b]) : e.path = "P"
        /\ mailbox[b] = <<>> /\ inHand[b] = NoEvent

\* C7 as stated: an await returns the value of the first P event enqueued
\* after its handler was bound.
C7_AwaitReturnsFirstSentAfterBind ==
    \A b \in Blocks :
        (pc[b] = "user" /\ awaitRet[b] # NoEvent /\ firstAfter[b] # NoEvent) =>
            awaitRet[b] = firstAfter[b]

\* C7: when no P event is in the mailbox at the time the await handler is
\* bound, the await returns the value of the first P event enqueued after the
\* binding and of no other event; until then that event stays in the mailbox
\* or is the one being handled, and the receiver is not left Suspended with it
\* once its sender has made its status check.
C7_AwaitReturnsFirstWhenNonePending ==
    \A b \in Blocks :
        /\ (pc[b] = "user" /\ awaitRet[b] # NoEvent /\ ~pendingAtBind[b]) =>
              awaitRet[b] = firstAfter[b]
        /\ (awaiting[b] /\ ~pendingAtBind[b] /\ firstAfter[b] # NoEvent) =>
              /\ firstAfter[b] \in Elems(mailbox[b]) \cup InHandSet(b)
              /\ status[b] = Suspended => InSend(b) # {}

\* The await of a fiber that suspended with an empty mailbox has returned the
\* value sent after the binding.
C7_Witness ==
    /\ pc[FiberBlock] = "user"
    /\ ~pendingAtBind[FiberBlock]
    /\ awaitRet[FiberBlock] # NoEvent
    /\ awaitRet[FiberBlock] = firstAfter[FiberBlock]
    /\ enablesSince[FiberBlock] = 1

Active == {"user", "process", "handle", "lock", "recheck"}
ExecutingOn(b) == {w \in Workers : current[w] = b}

\* C8: no two workers execute the same fiber at the same time, and a fiber is
\* inside its user code, process, handleEvent or yield only while it is the
\* current block of exactly one worker; the thread's block is run by its own
\* thread and by no worker.
C8_SingleConsumer ==
    /\ \A w1, w2 \in Workers :
          (w1 # w2 /\ current[w1] # "none") => current[w1] # current[w2]
    /\ pc[FiberBlock] \in Active <=> Cardinality(ExecutingOn(FiberBlock)) = 1
    /\ pc[FiberBlock] \notin Active => ExecutingOn(FiberBlock) = {}
    /\ ExecutingOn(ThreadBlock) = {}

\* The fiber, enabled by a sender after it had suspended, handles an event on
\* the second worker while the first is idle.
C8_Witness ==
    /\ current[2] = FiberBlock
    /\ current[1] = "none"
    /\ pc[FiberBlock] = "handle"
    /\ enablesSince[FiberBlock] = 1

\* C9: the events one sender has sent to one receiver are passed to
\* handleEvent in the order in which they were sent, whether process or the
\* second look of yield dequeued them.
C9_FifoPerSender ==
    \A b \in Blocks : \A i, j \in 1..Len(handledLog[b]) :
        (i < j /\ handledLog[b][i].ev.from = handledLog[b][j].ev.from) =>
            handledLog[b][i].ev.seq < handledLog[b][j].ev.seq

\* The second event of a sender was dequeued by the second look of yield after
\* process had dequeued its first.
C9_Witness ==
    \E b \in Blocks : \E i, j \in 1..Len(handledLog[b]) :
        /\ i < j
        /\ handledLog[b][i].ev.from = handledLog[b][j].ev.from
        /\ handledLog[b][i].how = "process"
        /\ handledLog[b][j].how = "recheck"

PinnedFibers == {b \in Blocks : bound[b] # 0}

\* C13: a fiber pinned to scheduler s is in no ready queue but s's and is the
\* current block of no worker but s, whoever enabled it.
C13_PinnedOnlyOnItsScheduler ==
    \A b \in PinnedFibers : \A w \in Workers :
        w # bound[b] => CountIn(readyQ[w], b) = 0 /\ current[w] # b


(***************************************************************************)
(* Claims about Fiber::_execute                                            *)
(***************************************************************************)
\* C12: a fiber emits at most one terminal event to its parent, and when
\* _execute has ended it has emitted exactly one: finished when run() returned
\* and crashed when run() raised.
C12_ExactlyOneTerminalEvent ==
    \A f \in Fibers :
        /\ Len(parentEvents[f]) <= 1
        /\ runPc[f] = "done" =>
              parentEvents[f] = IF runOutcome[f] = "returned"
                                THEN <<"finished">> ELSE <<"crashed">>
        /\ runPc[f] # "done" => parentEvents[f] = <<>>

\* One fiber has ended with finished and another with crashed.
C12_Witness ==
    \E f, g \in Fibers :
        /\ runPc[f] = "done" /\ parentEvents[f] = <<"finished">>
        /\ runPc[g] = "done" /\ parentEvents[g] = <<"crashed">>

(***************************************************************************)
(* Claims about the ping-pong program                                      *)
(***************************************************************************)
InAwait(f) == ppPc[f] \in {"await_init", "await_ping", "await_pong"}

\* Ping and Pong are both inside an await with an empty mailbox and main
\* sends nothing more.
BothBlockedForever ==
    /\ InAwait(PingFiber) /\ ppBox[PingFiber] = <<>>
    /\ InAwait(PongFiber) /\ ppBox[PongFiber] = <<>>
    /\ \/ ppMain = "pump"
       \/ ppMain = "await_ready" /\ ppBox[MainThread] = <<>>

\* C14: in the ping-pong program the lines printed alternate Ping, Pong,
\* Ping, Pong, ...; no init, ping or pong event is dropped; and the fibers are
\* never both blocked in an await with nothing left to receive.
C14_PingPongAlternatesAndCompletes ==
    /\ \A i \in 1..Len(ppOut) :
          ppOut[i] = IF i % 2 = 1 THEN PingFiber ELSE PongFiber
    /\ ppDropped = <<>>
    /\ ~BothBlockedForever

(***************************************************************************)
(* Claims about the running counter and allFibersFinished                  *)
(***************************************************************************)
\* Only the main thread has called run, it has started at least one fiber, no
\* shutdown was asked for, and it is now inside the await.
MainStartedThenAwaits ==
    /\ awaitBound
    /\ created >= 1
    /\ callerPc[2] = "idle" /\ lastRef[2] = "none"
    /\ ~shuttingDown

\* C15: when the main thread has started fibers with run and then awaits
\* allFibersFinished on the main context, the await eventually returns, the
\* workers being scheduled fairly.
C15_AwaitEventuallyReturns == MainStartedThenAwaits ~> (awaitReturned >= 1)

\* The bumps run has made and the decrements fiberFinished has made.
BumpsDone == created - Cardinality({c \in Callers : callerPc[c] = "run_bump"})
DecrementsDone == Cardinality({f \in Fibers : fiberState[f] \in {"finishing", "done"}})

\* The executors inside fiberFinished, between the fetch_sub and the test.
InFiberFinished ==
    {e \in Executors : execCurrent[e] # 0 /\ fiberState[execCurrent[e]] = "finishing"}

C16_Step ==
    /\ \A e \in Executors :
          (execCurrent[e] # 0 /\ fiberState[execCurrent[e]] = "executing"
             /\ fiberState'[execCurrent[e]] = "finishing")
          => /\ running' = Wrap(running - 1)
             /\ execObserved'[e] = running
    /\ \A e \in InFiberFinished :
          fiberState'[execCurrent[e]] = "done"
          => IF execObserved[e] = 1
             THEN emitted' = emitted + 1 /\ mainMailbox' = mainMailbox + 1
             ELSE emitted' = emitted /\ mainMailbox' = mainMailbox
    /\ emitted' # emitted
          => \E e \in InFiberFinished : fiberState'[execCurrent[e]] = "done"

\* C16: every call of fiberFinished takes exactly one off the running counter
\* (the counter is always the bumps minus the decrements, in unsigned
\* arithmetic, also when calls overlap), and a call emits allFibersFinished
\* exactly when the value it observed before its decrement was 1.
C16_DecrementExactAndEmitIffObservedOne ==
    /\ [](running = Wrap(BumpsDone - DecrementsDone))
    /\ [][C16_Step]_vars

\* Two calls overlap; one observed 2, the other 1.
C16_Witness ==
    /\ InFiberFinished = Executors
    /\ {execObserved[e] : e \in Executors} = {1, 2}
    /\ running = 0

(***************************************************************************)
(* Claims about ThreadScheduler                                            *)
(***************************************************************************)
\* C17: the assertion status == Scheduled that follows the condition-variable
\* wait of ThreadScheduler::suspend holds whenever the wait has returned, by
\* whatever wake-up, and no execution is aborted by it.
C17_AssertionAfterWaitHolds ==
    /\ ~aborted
    /\ pc[ThreadBlock] = "cv_woken" => status[ThreadBlock] = Scheduled

\* C18: every write of a control block's status is made while the writer holds
\* the mutex of that block: the owner for Suspended and Dead, the enabling
\* sender for Scheduled. The one exception is the write of Running made by the
\* owner when it is resumed.
C18_Step ==
    \A b \in Blocks :
        status'[b] # status[b] =>
            \/ status'[b] = Running
            \/ status'[b] \in {Suspended, Dead} /\ mutex[b] = Self
            \/ status'[b] = Scheduled /\ mutex[b] \in Senders

C18_StatusWrittenUnderMutex == [][C18_Step]_vars

(***************************************************************************)
(* Claims about the control-block mutex                                    *)
(***************************************************************************)
\* C19: while a handler runs (handleEvent has been entered for an event, from
\* process or from the second look of yield), and while user code runs, the
\* running fiber or thread does not hold the mutex of its own control block.
C19_NoHandlerUnderOwnMutex ==
    \A b \in Blocks :
        (pc[b] \in {"handle", "user"} \/ inHand[b] # NoEvent) => mutex[b] # Self

\* A handler is running for an event that the second look of yield found.
C19_Witness ==
    \E b \in Blocks :
        /\ pc[b] = "handle"
        /\ handledLog[b] # <<>>
        /\ handledLog[b][Len(handledLog[b])].how = "recheck"
        /\ handledLog[b][Len(handledLog[b])].ev = inHand[b]

\* The positions at which a block's owner is suspended: a parked fiber, and
\* a thread from the unlock in suspend until the wait has returned.
Blocked(b) == pc[b] \in {"parked", "cv_prewait", "cv_wait", "cv_woken"}

C20_Step ==
    (pc[ThreadBlock] = "yield_locked" /\ pc'[ThreadBlock] # "yield_locked")
        => mutex'[ThreadBlock] # Self

NotYetFinished == {f \in Fibers : fiberState[f] \in {"queued", "executing"}}

\* C27: the running counter never wraps below zero: no fiberFinished observes
\* 0, the counter is never larger than the number of fibers created, and when
\* no run call is between its enable and its bump the counter is the number of
\* fibers started and not yet reported finished.
C27_CounterNeverBelowZero ==
    /\ running <= created
    /\ \A e \in InFiberFinished : execObserved[e] >= 1
    /\ (\A c \in Callers : callerPc[c] # "run_bump")
          => running = Cardinality(NotYetFinished)

(***************************************************************************)
(* More claims about dispatch                                              *)
(***************************************************************************)
\* C24: whenever no handleEvent is in progress (it has returned, or it was
\* left by an exception a handler raised) the context has no current handler
\* context.
C24_HandlerContextTornDown == hPc = "idle" => ~hCtxLive

\* C29: during a dispatch the cursor of the handler context designates the
\* past-the-end position or a handler that is still in the handler stack,
\* never a handler that was removed.
C29_CursorNeverDangles ==
    hPc = "dispatch" => (hCursor = End \/ IndexOf(hStack, hCursor) # 0)

C22_Step ==
    (hEvents' = hEvents + 1 /\ ~hBlock) =>
        /\ hBlock' = hBlock /\ hStack' = hStack
        /\ hCtxLive' = hCtxLive /\ hCursor' = hCursor
        /\ hFrames' = <<>> /\ hLog' = <<>>
        /\ hPc' = "idle"

\* C22: handleEvent for an event whose path has no handler block executes no
\* handler and leaves the handler blocks and the current handler context as
\* they were; the dispatch is over, and no handler bound later is ever
\* executed for that event.
C22_NoBlockNoEffect ==
    /\ [](hAbsentFor \cap hRanFor = {})
    /\ [][C22_Step]_vars

\* The first event found no handler block; a handler bound afterwards was
\* executed for the second event.
C22_Witness ==
    /\ hAbsentFor = {1}
    /\ hRanFor = {2}
    /\ hPc = "dispatch"

\* A handler starts executing in this step: the one on top of the frames.
Executes(h) ==
    /\ Len(hFrames') > Len(hFrames)
    /\ hFrames'[Len(hFrames')].id = h

\* C23: the handler of an Event::await that has returned is never executed
\* again, for any later event of its path, neither by handleEvent nor by a
\* super() call of a handler bound after it.
C23_AwaitHandlerNeverRunsAgain ==
    [][\A h \in hAwaited : ~Executes(h)]_vars

\* An await has returned while an older handler stays bound, and a later
\* event of the path is being handled by that older handler.
C23_Witness ==
    /\ hAwaited = {2}
    /\ hPc = "dispatch"
    /\ hFrames = <<[id |-> 1, supers |-> 0]>>
    /\ hEvents = 2

(***************************************************************************)
(* Claims about nested awaits                                              *)
(***************************************************************************)
\* C25: an Event::await for a path returns only for an event of that path:
\* every await that has returned was awaiting the path of the event whose
\* handler raised.
C25_AwaitReturnsOnlyForItsPath ==
    \A i \in 1..Len(aReturns) : aReturns[i].await = aReturns[i].event

\* The handler of the event in hand raised and await caught it: process and
\* yield are left by the exception.
Raises(b) == pc[b] = "handle" /\ pc'[b] = "user"

C26_Step ==
    \A b \in Blocks :
        /\ Raises(b) =>
              /\ mailbox'[b] = mailbox[b]
              /\ handledLog'[b] = handledLog[b]
              /\ freedLog'[b] = Append(freedLog[b], inHand[b])
        /\ handledLog'[b] # handledLog[b] =>
              /\ mailbox[b] # <<>>
              /\ Len(handledLog'[b]) = Len(handledLog[b]) + 1
              /\ handledLog'[b][Len(handledLog'[b])].ev = Head(mailbox[b])
              /\ mailbox'[b] = Tail(mailbox[b])
        /\ (mailbox'[b] # mailbox[b] /\ handledLog'[b] = handledLog[b]) =>
              /\ Len(mailbox'[b]) = Len(mailbox[b]) + 1
              /\ SubSeq(mailbox'[b], 1, Len(mailbox[b])) = mailbox[b]

\* C26: when a handler raises during process or yield, as every successful
\* await does, the mailbox is left as it was and exactly the event in hand is
\* freed; the mailbox only ever grows at its tail, and every dispatch, by
\* process or by the second look of yield, takes its head and leaves the rest
\* in order, so that no event behind a raising one is skipped or lost.
C26_RaiseConsumesOnlyEventInHand == [][C26_Step]_vars

\* The first event dispatched was awaited, so its handler raised and it was
\* freed; the next process is now handling the event that followed it from the
\* same sender.
C26_Witness ==
    \E b \in Blocks :
        /\ Len(handledLog[b]) = 2
        /\ handledLog[b][1].ev.path = "P"
        /\ handledLog[b][1].ev \in Elems(freedLog[b])
        /\ pc[b] = "handle"
        /\ inHand[b].from = handledLog[b][1].ev.from
        /\ inHand[b].seq = 2
        /\ handledLog[b][2].how = "process"

\* C28: once the status of a control block is Dead it does not change, no
\* send enables or signals a Dead block and a Dead block is in no ready
\* queue; the ThreadScheduler drops its reference to its block at most once,
\* and has dropped it once when it has been destroyed.
C28_Step ==
    \A b \in Blocks :
        status[b] = Dead =>
            /\ status'[b] = Dead
            /\ enablesSince'[b] = enablesSince[b]
            /\ b = ThreadBlock => notified' = notified

C28_DeadIsAbsorbing ==
    /\ [][C28_Step]_vars
    /\ [](\A b \in Blocks : status[b] = Dead => QueuedCount(b) = 0)
    /\ [](schDrops <= 1 /\ (~schLive => schDrops = 1) /\ (~schRef => schDrops = 1))

\* The release of the reference alone.
C28_ReleasedOnce ==
    schDrops <= 1 /\ (~schLive => schDrops = 1) /\ (~schRef => schDrops = 1)

\* The control blocks whose mutex the owner of block b holds: its own, from
\* the lock of yield, and the receiver's, inside a send made by a handler.
HeldByOwner(b) ==
    {c \in Blocks : (c = b /\ mutex[c] = Self) \/ (c # b /\ mutex[c] = OwnerId(b))}

\* The control blocks whose mutex sender s holds.
HeldBySender(s) == {c \in Blocks : mutex[c] = s}

\* The owner of block b is inside a send.
InHandlerSend(b) == pc[b] \in {"hsend_enqueued", "hsend_locked"}

\* C21: every thread, the owner of a block or a sender, holds at most one
\* control-block mutex; a thread inside a send, a send made by a handler
\* included, holds no mutex before it has locked the receiver's and the
\* receiver's alone after.
C21_AtMostOneMutexHeld ==
    /\ \A b \in Blocks :
          /\ Cardinality(HeldByOwner(b)) <= 1
          /\ InHandlerSend(b) => mutex[b] # Self
          /\ pc[b] = "hsend_enqueued" => HeldByOwner(b) = {}
          /\ pc[b] = "hsend_locked" => HeldByOwner(b) = {Other(b)}
    /\ \A s \in Senders :
          /\ Cardinality(HeldBySender(s)) <= 1
          /\ spc[s] = "enqueued" => HeldBySender(s) = {}
          /\ spc[s] = "locked" => HeldBySender(s) = {starget[s]}

\* A handler that the second look of yield started on the fiberized thread
\* is inside a send and holds the mutex of the fiber, which is Suspended.
C21_Witness ==
    /\ pc[ThreadBlock] = "hsend_locked"
    /\ handledLog[ThreadBlock][Len(handledLog[ThreadBlock])].how = "recheck"
    /\ mutex[FiberBlock] = OwnerId(ThreadBlock)
    /\ status[FiberBlock] = Suspended

====
